---- MODULE Spec2Model ----
(***************************************************************************)
(* AliasForge generation engine: RNG (rejection-sampled random integers),  *)
(* DataStore (asynchronous loading and cleaning of the two name datasets), *)
(* NameGen and UsernameGen (bounded-retry generators).                     *)
(*                                                                         *)
(* The repository carries two builds of the engine: the plain-script build *)
(* (js/*.js and the single-file script) and the TypeScript modules.  The   *)
(* variable build selects which one a behaviour runs.                      *)
(***************************************************************************)
EXTENDS Integers, Sequences, FiniteSets, TLC

VARIABLES
    build,      \* "js": plain-script build, "ts": TypeScript build
    \* ---- RNG: one call of randomInt / randomRange in progress ----
    rngOp,      \* "none" | "randomInt" | "randomRange"
    rngMin,     \* argument min of randomRange (in halves), 0 for randomInt
    rngMax,     \* argument max (in halves)
    rngPc,      \* "idle" | "draw" | "done" | "raised"
    threshold,  \* the local const threshold of randomInt
    val,        \* the local val: last 32-bit word read from the entropy source
    draws,      \* number of crypto.getRandomValues calls made by this call
    rngOut,     \* outcome of the call
    \* ---- loadFile applied to one response body ----
    raw,        \* the text of the response (a sequence of characters)
    cleanPc,    \* "text" (body received) | "done"
    cleanOut,   \* what loadFile settled with
    \* ---- DataStore ----
    firstNames, \* module variable firstNames: null or the array of first names
    lastNames,  \* module variable lastNames: null or the array of last names
    initPc,     \* per init call: "idle" | "awaiting" | "resolved" | "rejected"
    loads,      \* per init call and source: the promise returned by loadFile
    allP,       \* per init call: the promise returned by Promise.all
    initErr,    \* per init call: the failures its rejection carries
    ret,        \* outcome of the DataStore operation performed by the last step
    \* ---- NameGen / UsernameGen: the one invocation in progress ----
    gOp,        \* "none" | "NameGen.generate" | "NameGen.generateMany" |
                \* "UsernameGen.generate" | "UsernameGen.generateMany"
    gPc,        \* "idle" | "first" | "last" | "loop" | "done"
    gCount,     \* argument count of generateMany
    gOpts,      \* argument opts: pattern, casing and the optional name
    gNames,     \* argument names of UsernameGen.generateMany
    gResults,   \* local results of generateMany
    gSeen,      \* local seen of generateMany
    gAttempts,  \* local attempts of generateMany
    gIndex,     \* local namesIndex of UsernameGen.generateMany (ts)
    nFirst,     \* local first of NameGen.generate
    nLast,      \* local last of NameGen.generate
    nAttempts,  \* local attempts of NameGen.generate
    gFresh,     \* number of NameGen.generate calls the invocation has made
    gLog,       \* of an invocation of UsernameGen: generate's local raw and
                \* the RNG.randomInt calls it has made
    gOut,       \* outcome of the invocation
    \* ---- DOBGen: the one call of generateDate / format made last ----
    today,      \* the current local date, as new Date() gives it
    dPc,        \* "idle" | "date" (generateDate returned) | "text" (format returned)
    dOpts,      \* argument opts: minAge, maxAge, format
    dCalls,     \* the RNG calls generateDate has made
    dOut,       \* outcome of the call
    \* ---- UI: the age inputs, one result container, the frame callbacks ----
    minAgeInput,    \* value of the input #min-age
    maxAgeInput,    \* value of the input #max-age
    container,      \* values of the result items the container holds, in order
    frames,         \* animation-frame callbacks scheduled and not yet run
    rendered,       \* values of the most recent Renderer.render call
    uiOut           \* outcome of the last handler

rngVars == <<rngOp, rngMin, rngMax, rngPc, threshold, val, draws, rngOut>>
loadVars == <<raw, cleanPc, cleanOut>>
storeVars == <<firstNames, lastNames, initPc, loads, allP, initErr, ret>>
genVars == <<gOp, gPc, gCount, gOpts, gNames, gResults, gSeen, gAttempts, gIndex,
             nFirst, nLast, nAttempts, gFresh, gLog, gOut>>
dobVars == <<today, dPc, dOpts, dCalls, dOut>>
uiVars == <<minAgeInput, maxAgeInput, container, frames, rendered, uiOut>>
vars == <<build, rngVars, loadVars, storeVars, genVars, dobVars, uiVars>>

Builds == {"js", "ts"}
\* the single-file build (version 1.0.0 of the engine)
SingleFile == "single"

(***************************************************************************)
(* Numbers.  A JavaScript number argument x is carried as the integer 2x   *)
(* ("halves"), so that the non-integer arguments k + 0.5 are inputs too    *)
(* and Number.isInteger is a computation, not an assumption.               *)
(***************************************************************************)
Num(i) == 2 * i
IsInteger(h) == h % 2 = 0
IntOf(h) == h \div 2

(***************************************************************************)
(* Width of the entropy word.  The code draws a Uint32 (32 bits); the      *)
(* model keeps the arithmetic of the code and scales the width.            *)
(***************************************************************************)
WordBits == 3
WordRange == 2 ^ WordBits
Words == 0 .. (WordRange - 1)
MaxDraws == 3

NoOut == [kind |-> "none", v |-> 0, err |-> "none"]
Value(h) == [kind |-> "value", v |-> h, err |-> "none"]
Raise(e) == [kind |-> "raise", v |-> 0, err |-> e]

\* RangeError thrown by the argument checks
InvalidArgument == "InvalidArgument"

\* randomInt: the argument checks, before the buffer is allocated
RandomIntRejects(b, h) ==
    \/ ~IsInteger(h)
    \/ h <= 0
    \/ b = "ts" /\ IntOf(h) > WordRange

ThresholdNoRejection(max) == WordRange
\* const threshold = 2 ** 32 - ((2 ** 32) % max)
Threshold(max) == WordRange - (WordRange % max)

\* the loop condition, negated: the draw leaves the do-while
Accepted(v, t) == ~(v >= t)

ReduceIdentity(v, max) == v
\* return val % max
Reduce(v, max) == v % max

\* randomRange: the checks made before randomInt is called
RandomRangeRejects(b, lo, hi) ==
    /\ b = "ts"
    /\ \/ ~IsInteger(lo) \/ ~IsInteger(hi)
       \/ lo > hi
       \/ lo # hi /\ IntOf(hi - lo + 2) > WordRange

\* randomRange: the value handed to randomInt, max - min + 1
Span(lo, hi) == hi - lo + 2

\* randomRange (ts): if (min === max) return min
RangeShortCut(b, lo, hi) == b = "ts" /\ lo = hi

(***************************************************************************)
(* RNG actions                                                             *)
(***************************************************************************)
IntArgs == { Num(i) : i \in -1 .. (WordRange + 2) } \cup {1, 5}
RangeArgs == { Num(i) : i \in -2 .. (WordRange + 1) } \cup {1, 5}

\* the body of randomInt(m) up to the first draw, m in halves
EnterRandomInt(m) ==
    IF RandomIntRejects(build, m)
    THEN /\ rngPc' = "raised"
         /\ rngOut' = Raise(InvalidArgument)
         /\ threshold' = 0
    ELSE IF IntOf(m) = 1
    THEN /\ rngPc' = "done"
         /\ rngOut' = Value(rngMin' + Num(0))
         /\ threshold' = 0
    ELSE /\ rngPc' = "draw"
         /\ rngOut' = NoOut
         /\ threshold' = Threshold(IntOf(m))

CallRandomInt(h) ==
    /\ rngPc = "idle"
    /\ rngOp' = "randomInt"
    /\ rngMin' = 0
    /\ rngMax' = h
    /\ val' = 0
    /\ draws' = 0
    /\ EnterRandomInt(h)
    /\ UNCHANGED build

CallRandomRange(lo, hi) ==
    /\ rngPc = "idle"
    /\ rngOp' = "randomRange"
    /\ rngMin' = lo
    /\ rngMax' = hi
    /\ val' = 0
    /\ draws' = 0
    /\ IF RandomRangeRejects(build, lo, hi)
       THEN /\ rngPc' = "raised"
            /\ rngOut' = Raise(InvalidArgument)
            /\ threshold' = 0
       ELSE IF RangeShortCut(build, lo, hi)
       THEN /\ rngPc' = "done"
            /\ rngOut' = Value(lo)
            /\ threshold' = 0
       ELSE EnterRandomInt(Span(lo, hi))
    /\ UNCHANGED build

\* the argument randomInt is running with
CurrentMax == IF rngOp = "randomRange" THEN IntOf(Span(rngMin, rngMax)) ELSE IntOf(rngMax)

\* one iteration of the do-while: crypto.getRandomValues(buf); val = buf[0]
Draw(w) ==
    /\ rngPc = "draw"
    /\ draws < MaxDraws
    /\ val' = w
    /\ draws' = draws + 1
    /\ IF Accepted(w, threshold)
       THEN /\ rngPc' = "done"
            /\ rngOut' = Value(rngMin + Num(Reduce(w, CurrentMax)))
       ELSE /\ rngPc' = "draw"
            /\ rngOut' = NoOut
    /\ UNCHANGED <<build, rngOp, rngMin, rngMax, threshold>>

\* the caller takes the outcome; the next call may start
RngReturn ==
    /\ rngPc \in {"done", "raised"}
    /\ rngPc' = "idle"
    /\ rngOp' = "none"
    /\ rngMin' = 0
    /\ rngMax' = 0
    /\ threshold' = 0
    /\ val' = 0
    /\ draws' = 0
    /\ rngOut' = NoOut
    /\ UNCHANGED build

RngIdle ==
    /\ rngOp = "none"
    /\ rngMin = 0
    /\ rngMax = 0
    /\ rngPc = "idle"
    /\ threshold = 0
    /\ val = 0
    /\ draws = 0
    /\ rngOut = NoOut

MaxInits == 2
Calls == 1 .. MaxInits
Sources == 1 .. 2

Null == [isNull |-> TRUE, arr |-> <<>>]
Some(a) == [isNull |-> FALSE, arr |-> a]
NoErr == [kind |-> "none", src |-> 0]
NoLoad == [st |-> "none", ok |-> FALSE, text |-> <<>>, names |-> <<>>, err |-> NoErr]
NoRet == [op |-> "none", kind |-> "none", name |-> <<>>, err |-> "none",
          flag |-> FALSE, n1 |-> 0, n2 |-> 0]

StoreIdle ==
    /\ firstNames = Null
    /\ lastNames = Null
    /\ initPc = [c \in Calls |-> "idle"]
    /\ loads = [c \in Calls |-> [i \in Sources |-> NoLoad]]
    /\ allP = [c \in Calls |-> [st |-> "none", err |-> NoErr]]
    /\ initErr = [c \in Calls |-> {}]
    /\ ret = NoRet

NoName == [first |-> <<>>, last |-> <<>>, full |-> <<>>]
NoOpts == [pattern |-> "none", casing |-> "none", given |-> FALSE, name |-> NoName]
NoGOut == [kind |-> "none", err |-> "none", name |-> NoName, str |-> <<>>, list |-> <<>>]

NoLog == [raw |-> <<>>, calls |-> <<>>, uses |-> <<>>, from |-> <<>>]

GenIdle ==
    /\ gOp = "none"
    /\ gPc = "idle"
    /\ gCount = 0
    /\ gOpts = NoOpts
    /\ gNames = <<>>
    /\ gResults = <<>>
    /\ gSeen = {}
    /\ gAttempts = 0
    /\ gIndex = 0
    /\ nFirst = <<>>
    /\ nLast = <<>>
    /\ nAttempts = 0
    /\ gFresh = 0
    /\ gLog = NoLog
    /\ gOut = NoGOut

LoadIdle ==
    /\ raw = <<>>
    /\ cleanPc = "done"
    /\ cleanOut = [kind |-> "none", names |-> <<>>, err |-> "none"]

NoDate == [y |-> 0, m |-> 0, d |-> 0]
NoDobOpts == [minAge |-> 0, maxAge |-> 0, format |-> "none"]
NoDOut == [kind |-> "none", err |-> "none", date |-> NoDate, str |-> <<>>]
NoUiOut == [kind |-> "none", err |-> "none", minAge |-> 0, maxAge |-> 0]

\* no DOBGen call has been made; the date is the one of the specification
DobIdle ==
    /\ dPc = "idle"
    /\ dOpts = NoDobOpts
    /\ dCalls = <<>>
    /\ dOut = NoDOut

\* the page as loaded: empty inputs, an empty container, no callback
UiIdle ==
    /\ minAgeInput = <<>>
    /\ maxAgeInput = <<>>
    /\ container = <<>>
    /\ frames = <<>>
    /\ rendered = <<>>
    /\ uiOut = NoUiOut

InitRng ==
    /\ build \in Builds
    /\ RngIdle
    /\ LoadIdle
    /\ StoreIdle
    /\ GenIdle
    /\ today = NoDate
    /\ DobIdle
    /\ UiIdle

NextRng ==
    \/ \E h \in IntArgs : CallRandomInt(h) /\ UNCHANGED <<loadVars, storeVars, genVars, dobVars, uiVars>>
    \/ \E lo \in RangeArgs, hi \in RangeArgs : CallRandomRange(lo, hi) /\ UNCHANGED <<loadVars, storeVars, genVars, dobVars, uiVars>>
    \/ \E w \in Words : Draw(w) /\ UNCHANGED <<loadVars, storeVars, genVars, dobVars, uiVars>>
    \/ RngReturn /\ UNCHANGED <<loadVars, storeVars, genVars, dobVars, uiVars>>

SpecRng == InitRng /\ [][NextRng]_vars

(***************************************************************************)
(* Claims about RNG (checked under SpecRng)                                *)
(***************************************************************************)
\* randomInt has passed its argument checks and computed threshold
InDrawLoop == rngPc = "draw" \/ (rngPc = "done" /\ draws > 0)

\* C1: for every integer max in [1, 2^32], a value returned by randomInt(max)
\* is an integer r with 0 <= r < max, and randomInt(1) returns 0 without
\* drawing any entropy.
C1_RandomIntInRange ==
    (rngOp = "randomInt" /\ IsInteger(rngMax) /\ IntOf(rngMax) \in 1 .. WordRange)
        => /\ rngPc # "raised"
           /\ rngPc = "done" =>
                /\ rngOut.kind = "value"
                /\ IsInteger(rngOut.v)
                /\ IntOf(rngOut.v) \in 0 .. (IntOf(rngMax) - 1)
           /\ IntOf(rngMax) = 1 => rngPc = "done" /\ rngOut = Value(Num(0)) /\ draws = 0

\* C1 witness: randomInt(3) returned after one rejected and one accepted draw
C1_Witness ==
    /\ rngOp = "randomInt" /\ rngMax = Num(3)
    /\ rngPc = "done" /\ draws = 2 /\ rngOut.kind = "value"

\* C2: for every max in [1, 2^32] the rejection threshold of randomInt is
\* floor(2^32 / max) * max, and among the accepted draws every result r in
\* [0, max) has exactly floor(2^32 / max) preimages under draw mod max.
C2_NoModuloBias ==
    (InDrawLoop /\ CurrentMax \in 1 .. WordRange)
        => /\ threshold = (WordRange \div CurrentMax) * CurrentMax
           /\ \A r \in 0 .. (CurrentMax - 1) :
                Cardinality({ w \in Words : Accepted(w, threshold)
                                             /\ Reduce(w, CurrentMax) = r })
                    = WordRange \div CurrentMax

\* C2 witness: randomInt(3), whose threshold is below the word range, has
\* rejected a draw
C2_Witness ==
    /\ rngOp = "randomInt" /\ rngMax = Num(3)
    /\ rngPc = "draw" /\ draws = 1 /\ threshold < WordRange /\ val >= threshold

\* C3: randomInt(max) fails with InvalidArgument for max <= 0, for non-integer
\* max and for max > 2^32, before any entropy is drawn.
C3_InvalidMaxRaises ==
    (rngOp = "randomInt"
        /\ (~IsInteger(rngMax) \/ rngMax <= 0 \/ IntOf(rngMax) > WordRange))
        => rngPc = "raised" /\ rngOut = Raise(InvalidArgument) /\ draws = 0

\* C4: randomRange(min, max) fails with InvalidArgument whenever min > max or
\* an input is a non-integer or the span max - min + 1 exceeds 2^32, and never
\* returns a value for such inputs.
C4_InvalidRangeRaises ==
    (rngOp = "randomRange"
        /\ (\/ ~IsInteger(rngMin) \/ ~IsInteger(rngMax)
            \/ rngMin > rngMax
            \/ IntOf(Span(rngMin, rngMax)) > WordRange))
        => rngPc = "raised" /\ rngOut = Raise(InvalidArgument)

(***************************************************************************)
(* Strings are sequences of one-character strings.  BOM stands for the     *)
(* single code unit U+FEFF.                                                *)
(***************************************************************************)
BOM == "BOM"
LowerAlpha == <<"a","b","c","d","e","f","g","h","i","j","k","l","m",
                "n","o","p","q","r","s","t","u","v","w","x","y","z","é">>
UpperAlpha == <<"A","B","C","D","E","F","G","H","I","J","K","L","M",
                "N","O","P","Q","R","S","T","U","V","W","X","Y","Z","É">>
Letters == { LowerAlpha[i] : i \in DOMAIN LowerAlpha } \cup { UpperAlpha[i] : i \in DOMAIN UpperAlpha }
\* the characters of the regular-expression class \s and of String.trim
WhiteSpace == {" ", "\t", "\r", "\n", BOM}

ToLowerChar(c) ==
    IF \E i \in DOMAIN UpperAlpha : UpperAlpha[i] = c
    THEN LowerAlpha[CHOOSE i \in DOMAIN UpperAlpha : UpperAlpha[i] = c]
    ELSE c
ToUpperChar(c) ==
    IF \E i \in DOMAIN LowerAlpha : LowerAlpha[i] = c
    THEN UpperAlpha[CHOOSE i \in DOMAIN LowerAlpha : LowerAlpha[i] = c]
    ELSE c
toLowerCase(str) == [i \in 1 .. Len(str) |-> ToLowerChar(str[i])]
toUpperCase(str) == [i \in 1 .. Len(str) |-> ToUpperChar(str[i])]

RECURSIVE Concat(_)
\* Array.join('')
Concat(parts) == IF parts = <<>> THEN <<>> ELSE Head(parts) \o Concat(Tail(parts))

RECURSIVE JoinLines(_)
\* the text of a file whose lines are given: lines joined with "\n"
JoinLines(ls) ==
    IF ls = <<>> THEN <<>>
    ELSE IF Len(ls) = 1 THEN ls[1]
    ELSE ls[1] \o <<"\n">> \o JoinLines(Tail(ls))

\* raw.replace(/^\uFEFF/, '')
StripBOM(str) == IF Len(str) > 0 /\ str[1] = BOM THEN Tail(str) ELSE str

\* String.split(sep): the pieces between consecutive separators, empty pieces kept
SplitOn(str, sep) ==
    LET seps   == { i \in 1 .. Len(str) : str[i] = sep }
        n      == Cardinality(seps)
        cut(k) == IF k = 0 THEN 0
                  ELSE IF k = n + 1 THEN Len(str) + 1
                  ELSE CHOOSE i \in seps : Cardinality({ j \in seps : j < i }) = k - 1
    IN  [k \in 1 .. n + 1 |-> SubSeq(str, cut(k - 1) + 1, cut(k) - 1)]
SplitLines(str) == SplitOn(str, "\n")

\* String.trim
Trim(str) ==
    LET keep == { i \in 1 .. Len(str) : str[i] \notin WhiteSpace }
    IN  IF keep = {} THEN <<>>
        ELSE LET lo == CHOOSE i \in keep : \A j \in keep : i <= j
                 hi == CHOOSE i \in keep : \A j \in keep : j <= i
             IN  SubSeq(str, lo, hi)

MinNameLen == 2
MaxNameLen == 40
\* the character class [\p{L}\s'\-\.]
NameChars == Letters \cup WhiteSpace \cup {"'", "-", "."}

isValidName(name) ==
    /\ Len(name) >= MinNameLen
    /\ Len(name) <= MaxNameLen
    /\ Len(name) >= 1 /\ \A i \in 1 .. Len(name) : name[i] \in NameChars

\* the lookbehind class of toTitleCase's split: [-\s]
TitleBreaks == {"-"} \cup WhiteSpace

\* str.split(/(?<=[-\s])/): cut after every break character, except at the end
SplitAfter(str) ==
    LET brks   == { i \in 1 .. Len(str) - 1 : str[i] \in TitleBreaks }
        n      == Cardinality(brks)
        cut(k) == IF k = 0 THEN 0
                  ELSE IF k = n + 1 THEN Len(str)
                  ELSE CHOOSE i \in brks : Cardinality({ j \in brks : j < i }) = k - 1
    IN  IF str = <<>> THEN <<>>
        ELSE [k \in 1 .. n + 1 |-> SubSeq(str, cut(k - 1) + 1, cut(k))]

\* part.charAt(0).toUpperCase() + part.slice(1).toLowerCase()
TitlePart(part) ==
    IF part = <<>> THEN <<>>
    ELSE <<ToUpperChar(part[1])>> \o toLowerCase(Tail(part))

toTitleCase(str) ==
    LET parts == IF str = <<>> THEN << <<>> >> ELSE SplitAfter(str)
    IN  Concat([i \in 1 .. Len(parts) |-> TitlePart(parts[i])])

DedupKeyExact(line) == line
\* const key = line.toLowerCase()
DedupKey(line) == toLowerCase(line)

RECURSIVE FilterValid(_)
\* .filter(line => isValidName(line))
FilterValid(ls) ==
    IF ls = <<>> THEN <<>>
    ELSE IF isValidName(Head(ls)) THEN <<Head(ls)>> \o FilterValid(Tail(ls))
    ELSE FilterValid(Tail(ls))

RECURSIVE FilterSeen(_, _)
\* .filter(line => { if (seen.has(key)) return false; seen.add(key); return true; })
FilterSeen(ls, seen) ==
    IF ls = <<>> THEN <<>>
    ELSE LET key == DedupKey(Head(ls))
         IN  IF key \in seen THEN FilterSeen(Tail(ls), seen)
             ELSE <<Head(ls)>> \o FilterSeen(Tail(ls), seen \cup {key})

\* the const names of loadFile
CleanNames(text) ==
    LET split   == SplitLines(StripBOM(text))
        trimmed == [i \in 1 .. Len(split) |-> Trim(split[i])]
        kept    == FilterSeen(FilterValid(trimmed), {})
    IN  [i \in 1 .. Len(kept) |-> toTitleCase(kept[i])]

SourceUnavailable == "SourceUnavailable"
EmptyDataset == "EmptyDataset"

LoadFileSettleNoEmptyCheck(text) ==
    [kind |-> "value", names |-> CleanNames(text), err |-> "none"]
\* loadFile after response.text(): the names, or the error for an empty result
LoadFileSettle(text) ==
    LET names == CleanNames(text)
    IN  IF Len(names) = 0
        THEN [kind |-> "raise", names |-> <<>>, err |-> EmptyDataset]
        ELSE [kind |-> "value", names |-> names, err |-> "none"]

(***************************************************************************)
(* loadFile as a function of the response body                             *)
(***************************************************************************)
MaxLines == 2

Str40 == [i \in 1 .. 40 |-> "a"]
\* lines a dataset file may hold
LineCands ==
    { <<"J","o","r","d","a","n">>,
      <<"j","o","r","d","a","n">>,
      <<" "," ","A","n","n","e","-","M","a","r","i","e"," "," ">>,
      <<"a","N","N","E","-","m","a","r","i","e","\r">>,
      <<"1","2","3">>,
      <<"a">>,
      <<>>,
      <<"m","A","R","Y"," ","a","n","n">>,
      <<"d","e","\t","l","a">>,
      <<"o","'","n","e","i","l">>,
      <<"z","o","É","-","-","j",".","r">>,
      <<"a","b","1">>,
      Str40,
      Str40 \o <<"a">> }

RECURSIVE LineSeqs(_)
LineSeqs(n) ==
    IF n = 0 THEN { <<>> }
    ELSE LineSeqs(n - 1) \cup { Append(ls, l) : ls \in { q \in LineSeqs(n - 1) : Len(q) = n - 1 }, l \in LineCands }

\* the file of the specification's example
ExampleLines ==
    << <<"J","o","r","d","a","n">>,
       <<"j","o","r","d","a","n">>,
       <<" "," ","A","n","n","e","-","M","a","r","i","e"," "," ">>,
       <<"1","2","3">>,
       <<"a">> >>
ExampleRaw == JoinLines(ExampleLines)

RawInputs ==
    LET files == { JoinLines(ls) : ls \in LineSeqs(MaxLines) } \cup { ExampleRaw }
    IN  files \cup { <<BOM>> \o f : f \in files }

\* await response.text() has delivered the body; the rest of loadFile runs
CleanFile ==
    /\ cleanPc = "text"
    /\ cleanPc' = "done"
    /\ cleanOut' = LoadFileSettle(raw)
    /\ UNCHANGED <<build, raw>>

InitLoad ==
    /\ build \in Builds
    /\ RngIdle
    /\ raw \in RawInputs
    /\ cleanPc = "text"
    /\ cleanOut = [kind |-> "none", names |-> <<>>, err |-> "none"]
    /\ StoreIdle
    /\ GenIdle
    /\ today = NoDate
    /\ DobIdle
    /\ UiIdle

NextLoad ==
    CleanFile /\ UNCHANGED <<rngVars, storeVars, genVars, dobVars, uiVars>>

SpecLoad == InitLoad /\ [][NextLoad]_vars

(***************************************************************************)
(* Claims about loadFile (checked under SpecLoad)                          *)
(***************************************************************************)
\* the trimmed lines of a file
RefLines(text) ==
    LET split == SplitLines(StripBOM(text))
    IN  [i \in 1 .. Len(split) |-> Trim(split[i])]

\* the name predicate: length 2..40, only letters, spaces, apostrophes,
\* hyphens, dots
RefValid(line) ==
    /\ Len(line) \in 2 .. 40
    /\ \A i \in 1 .. Len(line) :
          \/ line[i] \in Letters
          \/ line[i] \in WhiteSpace
          \/ line[i] \in {"'", "-", "."}

\* Title Case: upper-case the first character and every character that
\* follows a hyphen or white space, lower-case everything else
RefTitle(line) ==
    [i \in 1 .. Len(line) |->
        IF i = 1 \/ line[i - 1] = "-" \/ line[i - 1] \in WhiteSpace
        THEN ToUpperChar(line[i])
        ELSE ToLowerChar(line[i])]

\* same name up to letter case
SameNoCase(a, b) ==
    /\ Len(a) = Len(b)
    /\ \A i \in 1 .. Len(a) : ToLowerChar(a[i]) = ToLowerChar(b[i])

\* the pool the claim describes: valid lines that are the first of their
\* case-insensitive class, in file order, Title-Cased
RefPool(text) ==
    LET ls   == RefLines(text)
        keep == { i \in 1 .. Len(ls) :
                    /\ RefValid(ls[i])
                    /\ \A j \in 1 .. (i - 1) : ~(RefValid(ls[j]) /\ SameNoCase(ls[j], ls[i])) }
        nth(k) == CHOOSE i \in keep : Cardinality({ j \in keep : j <= i }) = k
    IN  [k \in 1 .. Cardinality(keep) |-> RefTitle(ls[nth(k)])]

ExamplePool == << <<"J","o","r","d","a","n">>, <<"A","n","n","e","-","M","a","r","i","e">> >>

NotInitialized == "NotInitialized"

\* bodies the two dataset files may have: 1 first-names.txt, 2 last-names.txt
SourceTexts(i) ==
    IF i = 1
    THEN { <<"J","o","\n","j","o","\n"," ","a","l"," ","\n","1","2">>,
           <<"b","o">> }
    ELSE { <<"J","O","\r","\n","l","e","e","\n">>,
           <<"1","2">> }

\* the values randomInt(max) returns for an argument it accepts: every
\* integer of [0, max)
RandomIntValues(max) == 0 .. (max - 1)

\* RNG.pick(arr)
pick(arr) ==
    IF Len(arr) = 0
    THEN { [kind |-> "raise", name |-> <<>>, err |-> InvalidArgument] }
    ELSE { [kind |-> "value", name |-> arr[r + 1], err |-> "none"] :
             r \in RandomIntValues(Len(arr)) }

NotInit == [kind |-> "raise", name |-> <<>>, err |-> NotInitialized]

getFirstNameOfLast == IF lastNames.isNull THEN {NotInit} ELSE pick(lastNames.arr)
getFirstNameUnchecked == pick(firstNames.arr)
\* DataStore.getFirstName
getFirstName == IF firstNames.isNull THEN {NotInit} ELSE pick(firstNames.arr)
\* DataStore.getLastName
getLastName == IF lastNames.isNull THEN {NotInit} ELSE pick(lastNames.arr)
\* DataStore.isReady
isReady == ~firstNames.isNull /\ ~lastNames.isNull
\* DataStore.stats: firstNames?.length ?? 0
stats == <<IF firstNames.isNull THEN 0 ELSE Len(firstNames.arr),
           IF lastNames.isNull THEN 0 ELSE Len(lastNames.arr)>>

\* Promise.all: the state after the promise of source i has settled as l
PromiseAllReact(c, i, l) ==
    IF allP[c].st # "pending" THEN allP[c]
    ELSE IF l.st = "rejected" THEN [st |-> "rejected", err |-> l.err]
    ELSE IF \A j \in Sources \ {i} : loads[c][j].st = "fulfilled"
         THEN [st |-> "fulfilled", err |-> NoErr]
    ELSE allP[c]

\* init(): both loadFile calls are started, then init awaits Promise.all
InitCall(c) ==
    /\ initPc[c] = "idle"
    /\ \A d \in Calls : d < c => initPc[d] # "idle"
    /\ initPc' = [initPc EXCEPT ![c] = "awaiting"]
    /\ loads' = [loads EXCEPT ![c] = [i \in Sources |-> [NoLoad EXCEPT !.st = "fetching"]]]
    /\ allP' = [allP EXCEPT ![c] = [st |-> "pending", err |-> NoErr]]
    /\ ret' = NoRet
    /\ UNCHANGED <<build, firstNames, lastNames, initErr>>

\* what a fetch can deliver: a response that is not ok, or an ok response
\* with one of the bodies
Responses(i) ==
    { [ok |-> FALSE, text |-> <<>>] } \cup { [ok |-> TRUE, text |-> t] : t \in SourceTexts(i) }

\* loadFile(path) settles: if (!response.ok) throw; otherwise the body is
\* cleaned and the names are returned, or the empty result is thrown
LoadSettle(c, i, resp) ==
    /\ loads[c][i].st = "fetching"
    /\ LET r == LoadFileSettle(resp.text)
           l == IF ~resp.ok
                THEN [loads[c][i] EXCEPT !.st = "rejected",
                                         !.err = [kind |-> SourceUnavailable, src |-> i]]
                ELSE IF r.kind = "value"
                THEN [loads[c][i] EXCEPT !.st = "fulfilled", !.ok = TRUE,
                                         !.text = resp.text, !.names = r.names]
                ELSE [loads[c][i] EXCEPT !.st = "rejected", !.ok = TRUE,
                                         !.text = resp.text,
                                         !.err = [kind |-> r.err, src |-> i]]
       IN  /\ loads' = [loads EXCEPT ![c][i] = l]
           /\ allP' = [allP EXCEPT ![c] = PromiseAllReact(c, i, l)]
    /\ ret' = NoRet
    /\ UNCHANGED <<build, firstNames, lastNames, initPc, initErr>>

InitAssignEachLoaded(c) ==
    << IF loads[c][1].st = "fulfilled" THEN Some(loads[c][1].names) ELSE firstNames,
       IF loads[c][2].st = "fulfilled" THEN Some(loads[c][2].names) ELSE lastNames >>
\* [firstNames, lastNames] = await Promise.all([...]): the pools after the await
InitAssign(c) ==
    IF allP[c].st = "fulfilled"
    THEN << Some(loads[c][1].names), Some(loads[c][2].names) >>
    ELSE << firstNames, lastNames >>

\* init resumes after the await: it assigns both pools, or throws the reason
InitResume(c) ==
    /\ initPc[c] = "awaiting"
    /\ allP[c].st \in {"fulfilled", "rejected"}
    /\ firstNames' = InitAssign(c)[1]
    /\ lastNames' = InitAssign(c)[2]
    /\ IF allP[c].st = "fulfilled"
       THEN /\ initPc' = [initPc EXCEPT ![c] = "resolved"]
            /\ initErr' = initErr
       ELSE /\ initPc' = [initPc EXCEPT ![c] = "rejected"]
            /\ initErr' = [initErr EXCEPT ![c] = {allP[c].err}]
    /\ ret' = NoRet
    /\ UNCHANGED <<build, loads, allP>>

CallGetFirstName ==
    /\ \E o \in getFirstName :
          ret' = [NoRet EXCEPT !.op = "getFirstName", !.kind = o.kind, !.name = o.name, !.err = o.err]
    /\ UNCHANGED <<build, firstNames, lastNames, initPc, loads, allP, initErr>>

CallGetLastName ==
    /\ \E o \in getLastName :
          ret' = [NoRet EXCEPT !.op = "getLastName", !.kind = o.kind, !.name = o.name, !.err = o.err]
    /\ UNCHANGED <<build, firstNames, lastNames, initPc, loads, allP, initErr>>

CallIsReady ==
    /\ ret' = [NoRet EXCEPT !.op = "isReady", !.kind = "value", !.flag = isReady]
    /\ UNCHANGED <<build, firstNames, lastNames, initPc, loads, allP, initErr>>

CallStats ==
    /\ ret' = [NoRet EXCEPT !.op = "stats", !.kind = "value", !.n1 = stats[1], !.n2 = stats[2]]
    /\ UNCHANGED <<build, firstNames, lastNames, initPc, loads, allP, initErr>>

\* DataStore is the same code in both builds
Init ==
    /\ build = "js"
    /\ RngIdle
    /\ LoadIdle
    /\ StoreIdle
    /\ GenIdle
    /\ today = NoDate
    /\ DobIdle
    /\ UiIdle

Next ==
    \/ \E c \in Calls : InitCall(c) /\ UNCHANGED <<rngVars, loadVars, genVars, dobVars, uiVars>>
    \/ \E c \in Calls, i \in Sources : \E resp \in Responses(i) :
          LoadSettle(c, i, resp) /\ UNCHANGED <<rngVars, loadVars, genVars, dobVars, uiVars>>
    \/ \E c \in Calls : InitResume(c) /\ UNCHANGED <<rngVars, loadVars, genVars, dobVars, uiVars>>
    \/ CallGetFirstName /\ UNCHANGED <<rngVars, loadVars, genVars, dobVars, uiVars>>
    \/ CallGetLastName /\ UNCHANGED <<rngVars, loadVars, genVars, dobVars, uiVars>>
    \/ CallIsReady /\ UNCHANGED <<rngVars, loadVars, genVars, dobVars, uiVars>>
    \/ CallStats /\ UNCHANGED <<rngVars, loadVars, genVars, dobVars, uiVars>>

Spec == Init /\ [][Next]_vars

(***************************************************************************)
(* Claims about DataStore (checked under Spec)                             *)
(***************************************************************************)
SomeInitResolved == \E c \in Calls : initPc[c] = "resolved"
Elems(arr) == { arr[k] : k \in 1 .. Len(arr) }

\* C5: under every interleaving of the completion or failure of the two
\* source loads of init, the first-name pool is populated if and only if the
\* last-name pool is, and whenever the store is ready both pools are non-empty.
C5_NoPartialReadiness ==
    /\ firstNames.isNull <=> lastNames.isNull
    /\ isReady => Len(firstNames.arr) > 0 /\ Len(lastNames.arr) > 0
    /\ ret.op = "isReady" /\ ret.flag => ~firstNames.isNull /\ ~lastNames.isNull

\* C5 witness: one source of an init call has loaded, the other has failed,
\* init has been rejected and isReady has been asked
C5_Witness ==
    \E c \in Calls :
        /\ loads[c][1].st = "fulfilled"
        /\ loads[c][2].st = "rejected"
        /\ initPc[c] = "rejected"
        /\ ret.op = "isReady"

\* C6: when both source loads of one init call fail, the failed outcome of
\* init surfaces both failures.
C6_BothFailuresSurfaced ==
    \A c \in Calls :
        (initPc[c] = "rejected" /\ \A i \in Sources : loads[c][i].st = "rejected")
            => \A i \in Sources : loads[c][i].err \in initErr[c]

\* C8: init fails with EmptyDataset when a source yields zero valid entries
\* and with SourceUnavailable when a source cannot be retrieved; as long as no
\* init has succeeded the store is not ready, stats reports 0 for both pools
\* and sampling fails with NotInitialized.
C8_FailedInit ==
    /\ \A c \in Calls :
          /\ initPc[c] = "resolved" =>
                \A i \in Sources : loads[c][i].ok /\ RefPool(loads[c][i].text) # <<>>
          /\ initPc[c] = "rejected" =>
                \E i \in Sources :
                    /\ loads[c][i].st = "rejected"
                    /\ \/ /\ ~loads[c][i].ok
                          /\ initErr[c] = {[kind |-> SourceUnavailable, src |-> i]}
                       \/ /\ loads[c][i].ok
                          /\ RefPool(loads[c][i].text) = <<>>
                          /\ initErr[c] = {[kind |-> EmptyDataset, src |-> i]}
          /\ (\E i \in Sources : loads[c][i].st = "rejected") => initPc[c] # "resolved"
    /\ ~SomeInitResolved =>
          /\ ~isReady
          /\ ret.op = "isReady" => ~ret.flag
          /\ ret.op = "stats" => ret.n1 = 0 /\ ret.n2 = 0
          /\ ret.op \in {"getFirstName", "getLastName"} =>
                ret.kind = "raise" /\ ret.err = NotInitialized

\* C8 witness: the first init failed on a last-names file without a valid
\* line while the first names had loaded, and stats has been asked
C8_Witness ==
    /\ initPc[1] = "rejected"
    /\ initErr[1] = {[kind |-> EmptyDataset, src |-> 2]}
    /\ loads[1][1].st = "fulfilled"
    /\ ret.op = "stats"

\* the pools of the init calls that have resolved
ResolvedPools(i) == { loads[c][i].names : c \in { d \in Calls : initPc[d] = "resolved" } }

\* C9: getFirstName and getLastName fail with NotInitialized whenever no init
\* call has resolved successfully yet (also while one is loading), and after a
\* successful init each returns an element of its own pool.
C9_Sampling ==
    /\ ret.op = "getFirstName" =>
          IF SomeInitResolved
          THEN /\ ret.kind = "value"
               /\ \E pool \in ResolvedPools(1) :
                     firstNames.arr = pool /\ ret.name \in Elems(pool)
          ELSE ret.kind = "raise" /\ ret.err = NotInitialized
    /\ ret.op = "getLastName" =>
          IF SomeInitResolved
          THEN /\ ret.kind = "value"
               /\ \E pool \in ResolvedPools(2) :
                     lastNames.arr = pool /\ ret.name \in Elems(pool)
          ELSE ret.kind = "raise" /\ ret.err = NotInitialized

\* C9 witness: getFirstName has returned a name after one init resolved while
\* another init is still loading
C9_Witness ==
    /\ ret.op = "getFirstName" /\ ret.kind = "value"
    /\ \E c \in Calls, d \in Calls : initPc[c] = "resolved" /\ initPc[d] = "awaiting"

\* C11: once an init call has resolved successfully, no later step changes the
\* contents of either pool: no getter, isReady or stats call, and no further
\* init call, whether it succeeds or fails.
C11_PoolsWriteOnce ==
    [][SomeInitResolved => (firstNames' = firstNames /\ lastNames' = lastNames)]_vars

(***************************************************************************)
(* NameGen and UsernameGen                                                 *)
(***************************************************************************)
FullNameOf(f, l) == [first |-> f, last |-> l, full |-> f \o <<" ">> \o l]

\* the cap of the do-while of NameGen.generate
NameRetryCap == 100
\* maxAttempts = count * 50 in NameGen.generateMany
NameBatchFactor == 50
\* maxAttempts = count * 100 in UsernameGen.generateMany
UserBatchFactor == 100

DoWhileNoRetry(first, last, attempts) == FALSE
\* while (last.toLowerCase() === first.toLowerCase() && attempts < 100),
\* evaluated after attempts++
DoWhileContinues(first, last, attempts) ==
    toLowerCase(last) = toLowerCase(first) /\ attempts < NameRetryCap

GenRaise(e) == [NoGOut EXCEPT !.kind = "raise", !.err = e]
GenName(n) == [NoGOut EXCEPT !.kind = "value", !.name = n]
GenStr(u) == [NoGOut EXCEPT !.kind = "value", !.str = u]
GenList(l) == [NoGOut EXCEPT !.kind = "value", !.list = l]

\* NameGen.generate from its do-while on, outs being the outcomes a call of
\* getLastName can have.  The draws are independent, so the loop enters
\* iteration a > 1 exactly when some draw keeps the loop going in iteration
\* a - 1, and it returns the draw of the iteration it leaves in.
LastDrawsOver(first, outs) ==
    LET raised == { o \in outs : o.kind = "raise" }
        drawn  == { o.name : o \in outs \ raised }
        exits  == { y \in drawn : \E a \in 1 .. NameRetryCap :
                      /\ a = 1 \/ \E z \in drawn : DoWhileContinues(first, z, a - 1)
                      /\ ~DoWhileContinues(first, y, a) }
    IN  { GenRaise(o.err) : o \in raised } \cup { GenName(FullNameOf(first, y)) : y \in exits }
LastDraws(first) == LastDrawsOver(first, getLastName)

\* NameGen.generate() as a call made by another generator: its outcomes, for
\* the outcomes firsts of getFirstName and lasts of getLastName
NameGenerateOver(firsts, lasts) ==
    UNION { IF o.kind = "raise" THEN { GenRaise(o.err) } ELSE LastDrawsOver(o.name, lasts)
            : o \in firsts }
NameGenerate == NameGenerateOver(getFirstName, getLastName)

DigitChars == <<"0","1","2","3","4","5","6","7","8","9">>
RECURSIVE DecimalString(_)
\* String(val) for an integer val >= 0
DecimalString(n) ==
    IF n < 10 THEN <<DigitChars[n + 1]>>
    ELSE DecimalString(n \div 10) \o <<DigitChars[(n % 10) + 1]>>
PadStartNone(str, n) == str
\* str.padStart(n, '0')
PadStart(str, n) == [i \in 1 .. (IF n > Len(str) THEN n - Len(str) ELSE 0) |-> "0"] \o str

\* randomDigits(n), r being the value RNG.randomInt(10 ** n) returned
randomDigits(n, r) == PadStart(DecimalString(r), n)

PatternIds == {"first.last", "first_digits", "initial_last", "initial_last_digits",
               "firstlast_digits", "last_digits"}
CasingIds == {"lower", "upper", "camel", "pascal"}

\* PATTERNS and CASE_TRANSFORMS are object literals, so a lookup by key also
\* finds the members of Object.prototype: functions such as toString, and
\* under the key __proto__ the prototype object itself
InheritedFunctions == {"toString"}
InheritedObjects == {"__proto__"}
InheritedKeys == InheritedFunctions \cup InheritedObjects
TypeError == "TypeError"
\* Object.prototype.toString called without a receiver (strict mode)
ObjectUndefined == <<"[","o","b","j","e","c","t"," ","U","n","d","e","f","i","n","e","d","]">>

\* PATTERNS[pattern] ?? PATTERNS['first_digits']: the key whose value is used
ResolvePattern(pattern) ==
    IF pattern \in PatternIds \cup InheritedKeys THEN pattern ELSE "first_digits"
\* CASE_TRANSFORMS[casing] ?? CASE_TRANSFORMS['lower']: the key whose value is used
ResolveCasing(casing) ==
    IF casing \in CasingIds \cup InheritedKeys THEN casing ELSE "lower"

\* the argument of the randomDigits call of a pattern, 0 if it makes none
DigitWidth(pattern) ==
    CASE pattern = "first_digits" -> 4
      [] pattern = "initial_last_digits" -> 3
      [] pattern = "firstlast_digits" -> 2
      [] pattern = "last_digits" -> 3
      [] OTHER -> 0

\* the values the pattern's RNG.randomInt(10 ** n) call can return
DigitDraws(pattern) ==
    IF DigitWidth(pattern) = 0 THEN {0}
    ELSE RandomIntValues(10 ^ DigitWidth(pattern))

\* ${first[0]}: the first character, or the text of undefined
Initial(first) ==
    IF Len(first) > 0 THEN <<first[1]>> ELSE <<"u","n","d","e","f","i","n","e","d">>

\* PATTERNS: the builder of a catalog pattern, r being its digit draw
patternFn(pattern, first, last, r) ==
    CASE pattern = "first.last" -> first \o <<".">> \o last
      [] pattern = "first_digits" -> first \o randomDigits(4, r)
      [] pattern = "initial_last" -> Initial(first) \o <<".">> \o last
      [] pattern = "initial_last_digits" -> Initial(first) \o <<".">> \o last \o randomDigits(3, r)
      [] pattern = "firstlast_digits" -> first \o last \o randomDigits(2, r)
      [] pattern = "last_digits" -> last \o randomDigits(3, r)
      [] pattern \in InheritedFunctions -> ObjectUndefined

\* capitalise(str)
capitalise(str) ==
    IF str = <<>> THEN <<>> ELSE <<ToUpperChar(str[1])>> \o Tail(str)

RECURSIVE SplitDelims(_, _)
\* str.split(/[._]/)
SplitDelims(str, cur) ==
    IF str = <<>> THEN <<cur>>
    ELSE IF Head(str) \in {".", "_"} THEN <<cur>> \o SplitDelims(Tail(str), <<>>)
    ELSE SplitDelims(Tail(str), Append(cur, Head(str)))

\* CASE_TRANSFORMS
caseFn(casing, str) ==
    CASE casing = "lower" -> toLowerCase(str)
      [] casing = "upper" -> toUpperCase(str)
      [] casing = "camel" ->
            LET parts == SplitDelims(toLowerCase(str), <<>>)
            IN  parts[1] \o Concat([i \in 1 .. (Len(parts) - 1) |-> capitalise(parts[i + 1])])
      [] casing = "pascal" ->
            LET parts == SplitDelims(toLowerCase(str), <<>>)
            IN  Concat([i \in 1 .. Len(parts) |-> capitalise(parts[i])])
      [] casing \in InheritedFunctions -> ObjectUndefined

\* the username generate builds from a resolved name and a digit draw
BuildUsername(opts, name, r) ==
    caseFn(ResolveCasing(opts.casing),
           patternFn(ResolvePattern(opts.pattern),
                     toLowerCase(name.first), toLowerCase(name.last), r))

\* whether generate takes the name of its options: function generate({
\* pattern, casing, name }); the single-file build has function generate({
\* pattern, casing })
TakesName(opts) == opts.given /\ build # SingleFile
\* const resolved = name ?? NameGen.generate(); in the single-file build
\* const { first, last } = NameGen.generate()
ResolveName(opts) == IF TakesName(opts) THEN { GenName(opts.name) } ELSE NameGenerate

\* UsernameGen.generate(opts): the outcomes, each with the local raw and the
\* RNG.randomInt calls made.  The two lookups come first, then the name is
\* resolved, then patternFn and caseFn are called; calling a value that is
\* not a function throws a TypeError.  entropy holds the values considered
\* for the result of the pattern's RNG.randomInt call.
UsernameOutcomesOver(opts, entropy) ==
    LET p == ResolvePattern(opts.pattern)
        k == ResolveCasing(opts.casing)
    IN  UNION { IF o.kind = "raise" THEN { [out |-> o, log |-> NoLog] }
                ELSE IF p \in InheritedObjects
                THEN { [out |-> GenRaise(TypeError), log |-> NoLog] }
                ELSE { LET built == patternFn(p, toLowerCase(o.name.first), toLowerCase(o.name.last), r)
                           calls == IF DigitWidth(p) = 0 THEN <<>>
                                    ELSE << [max |-> 10 ^ DigitWidth(p), val |-> r] >>
                       IN  [out |-> IF k \in InheritedObjects THEN GenRaise(TypeError)
                                    ELSE GenStr(caseFn(k, built)),
                            log |-> [NoLog EXCEPT !.raw = built, !.calls = calls]]
                       : r \in { v \in entropy : v \in DigitDraws(p) } }
                : o \in ResolveName(opts) }
UsernameOutcomes(opts) ==
    UsernameOutcomesOver(opts, DigitDraws(ResolvePattern(opts.pattern)))
UsernameGenerate(opts) == { x.out : x \in UsernameOutcomes(opts) }

\* the name UsernameGen.generateMany passes to generate in this iteration:
\* names[results.length] ?? null (js), names[namesIndex] or null (ts)
AttemptIndex == IF build = "js" THEN Len(gResults) ELSE gIndex
AttemptOpts ==
    IF AttemptIndex < Len(gNames)
    THEN [gOpts EXCEPT !.given = TRUE, !.name = gNames[AttemptIndex + 1]]
    ELSE [gOpts EXCEPT !.given = FALSE, !.name = NoName]

\* ---- invocations ----
GenStart(op, count, opts, names, pc) ==
    /\ gPc = "idle"
    /\ gOp' = op
    /\ gPc' = pc
    /\ gCount' = count
    /\ gOpts' = opts
    /\ gNames' = names
    /\ gResults' = <<>>
    /\ gSeen' = {}
    /\ gAttempts' = 0
    /\ gIndex' = 0
    /\ nFirst' = <<>>
    /\ nLast' = <<>>
    /\ nAttempts' = 0
    /\ UNCHANGED build

\* NameGen.generate() is invoked
CallNameGenerate ==
    /\ GenStart("NameGen.generate", 0, NoOpts, <<>>, "first")
    /\ gFresh' = 1
    /\ gLog' = NoLog
    /\ gOut' = NoGOut

\* NameGen.generate: const first = DataStore.getFirstName()
NameDrawFirst ==
    /\ gPc = "first"
    /\ \E o \in getFirstName :
          IF o.kind = "raise"
          THEN /\ gPc' = "done"
               /\ gOut' = GenRaise(o.err)
               /\ nFirst' = nFirst
          ELSE /\ gPc' = "last"
               /\ gOut' = gOut
               /\ nFirst' = o.name
    /\ UNCHANGED <<build, gOp, gCount, gOpts, gNames, gResults, gSeen, gAttempts, gIndex,
                   nLast, nAttempts, gFresh, gLog>>

\* NameGen.generate: one iteration of the do-while, and the return after it
NameDrawLast ==
    /\ gPc = "last"
    /\ \E o \in getLastName :
          IF o.kind = "raise"
          THEN /\ gPc' = "done"
               /\ gOut' = GenRaise(o.err)
               /\ UNCHANGED <<nLast, nAttempts>>
          ELSE /\ nLast' = o.name
               /\ nAttempts' = nAttempts + 1
               /\ IF DoWhileContinues(nFirst, o.name, nAttempts + 1)
                  THEN gPc' = "last" /\ gOut' = gOut
                  ELSE gPc' = "done" /\ gOut' = GenName(FullNameOf(nFirst, o.name))
    /\ UNCHANGED <<build, gOp, gCount, gOpts, gNames, gResults, gSeen, gAttempts, gIndex,
                   nFirst, gFresh, gLog>>

\* NameGen.generateMany(count) is invoked
CallNameGenerateMany(count) ==
    /\ GenStart("NameGen.generateMany", count, NoOpts, <<>>, "loop")
    /\ gFresh' = 0
    /\ gLog' = NoLog
    /\ gOut' = NoGOut

NameLoopContinuesTwice == Len(gResults) < gCount /\ gAttempts < gCount * NameBatchFactor * 2
\* while (results.length < count && attempts < maxAttempts)
NameLoopContinues == Len(gResults) < gCount /\ gAttempts < gCount * NameBatchFactor

NameSeenNever(name) == FALSE
\* seen.has(name.full.toLowerCase())
NameSeen(name) == toLowerCase(name.full) \in gSeen

\* NameGen.generateMany: the loop test, and one iteration or the return; outs
\* are the outcomes the call of generate can have
NameLoopStepOver(outs) ==
    /\ gPc = "loop"
    /\ gOp = "NameGen.generateMany"
    /\ IF NameLoopContinues
       THEN \E o \in outs :
              /\ gFresh' = gFresh + 1
              /\ IF o.kind = "raise"
                 THEN /\ gPc' = "done"
                      /\ gOut' = o
                      /\ UNCHANGED <<gResults, gSeen, gAttempts>>
                 ELSE /\ gPc' = "loop"
                      /\ gOut' = gOut
                      /\ gAttempts' = gAttempts + 1
                      /\ IF ~NameSeen(o.name)
                         THEN /\ gSeen' = gSeen \cup {toLowerCase(o.name.full)}
                              /\ gResults' = Append(gResults, o.name)
                         ELSE UNCHANGED <<gResults, gSeen>>
       ELSE /\ gPc' = "done"
            /\ gOut' = GenList(gResults)
            /\ UNCHANGED <<gResults, gSeen, gAttempts, gFresh>>
    /\ UNCHANGED <<build, gOp, gCount, gOpts, gNames, gIndex, nFirst, nLast, nAttempts, gLog>>

NameLoopStep == NameLoopStepOver(NameGenerate)

\* UsernameGen.generate(opts) is invoked and runs to its return or throw,
\* outs being the outcomes it can have
CallUsernameGenerateOver(opts, outs) ==
    /\ GenStart("UsernameGen.generate", 0, opts, <<>>, "done")
    /\ gFresh' = IF TakesName(opts) THEN 0 ELSE 1
    /\ \E x \in outs : gOut' = x.out /\ gLog' = x.log
CallUsernameGenerate(opts) == CallUsernameGenerateOver(opts, UsernameOutcomes(opts))

\* UsernameGen.generateMany(count, opts, names) is invoked
CallUsernameGenerateMany(count, opts, names) ==
    /\ GenStart("UsernameGen.generateMany", count, opts, names, "loop")
    /\ gFresh' = 0
    /\ gLog' = [NoLog EXCEPT !.uses = [i \in 1 .. Len(names) |-> 0]]
    /\ gOut' = NoGOut

\* while (results.length < count && attempts < maxAttempts)
UserLoopContinues == Len(gResults) < gCount /\ gAttempts < gCount * UserBatchFactor

UserSeenNever(username) == FALSE
\* seen.has(username)
UserSeen(username) == username \in gSeen

\* the position in names of the entry this iteration passes to generate, 0
\* when it passes null
AttemptUse == IF AttemptOpts.given THEN AttemptIndex + 1 ELSE 0
\* the record of an iteration: the entry used, and for a pushed username the
\* entry it was built from
LogAttempt(pushed) ==
    [gLog EXCEPT !.uses = IF AttemptUse > 0 THEN [@ EXCEPT ![AttemptUse] = @ + 1] ELSE @,
                 !.from = IF pushed THEN Append(@, AttemptUse) ELSE @]

\* UsernameGen.generateMany: the loop test, and one iteration or the return
UsernameLoopStep ==
    /\ gPc = "loop"
    /\ gOp = "UsernameGen.generateMany"
    /\ IF UserLoopContinues
       THEN \E o \in UsernameGenerate(AttemptOpts) :
              /\ gFresh' = IF AttemptOpts.given THEN gFresh ELSE gFresh + 1
              /\ gIndex' = gIndex + 1
              /\ IF o.kind = "raise"
                 THEN /\ gPc' = "done"
                      /\ gOut' = o
                      /\ gLog' = LogAttempt(FALSE)
                      /\ UNCHANGED <<gResults, gSeen, gAttempts>>
                 ELSE /\ gPc' = "loop"
                      /\ gOut' = gOut
                      /\ gAttempts' = gAttempts + 1
                      /\ gLog' = LogAttempt(~UserSeen(o.str))
                      /\ IF ~UserSeen(o.str)
                         THEN /\ gSeen' = gSeen \cup {o.str}
                              /\ gResults' = Append(gResults, o.str)
                         ELSE UNCHANGED <<gResults, gSeen>>
       ELSE /\ gPc' = "done"
            /\ gOut' = GenList(gResults)
            /\ UNCHANGED <<gResults, gSeen, gAttempts, gIndex, gFresh, gLog>>
    /\ UNCHANGED <<build, gOp, gCount, gOpts, gNames, nFirst, nLast, nAttempts>>

\* the caller has the outcome; control returns to the event loop
GenReturn ==
    /\ gPc = "done"
    /\ gOp' = "none"
    /\ gPc' = "idle"
    /\ gCount' = 0
    /\ gOpts' = NoOpts
    /\ gNames' = <<>>
    /\ gResults' = <<>>
    /\ gSeen' = {}
    /\ gAttempts' = 0
    /\ gIndex' = 0
    /\ nFirst' = <<>>
    /\ nLast' = <<>>
    /\ nAttempts' = 0
    /\ gFresh' = 0
    /\ gLog' = NoLog
    /\ gOut' = NoGOut
    /\ UNCHANGED build

(***************************************************************************)
(* The generators next to one init call                                    *)
(***************************************************************************)
MaxCount == 2
MaxNames == 2
GenCalls == {1}
GenCounts == -1 .. MaxCount
GenPatterns == {"first.last", "initial_last"}
GenCasings == {"lower"}
\* what the two fetches deliver when the generators run: a response that is
\* not ok, or the body with the larger pool
GenResponses(i) ==
    { r \in Responses(i) : ~r.ok \/ Len(CleanNames(r.text)) >= 2 }
\* names a caller may pin; the two give the same initial_last username
PinNames == { FullNameOf(<<"J","o">>, <<"L","e","e">>),
              FullNameOf(<<"J","i","m">>, <<"L","e","e">>) }

RECURSIVE NameSeqs(_)
NameSeqs(n) ==
    IF n = 0 THEN { <<>> }
    ELSE NameSeqs(n - 1) \cup { Append(q, x) : q \in { z \in NameSeqs(n - 1) : Len(z) = n - 1 }, x \in PinNames }

GenOptions ==
    { [pattern |-> p, casing |-> k, given |-> FALSE, name |-> NoName] :
        p \in GenPatterns, k \in GenCasings }
    \cup { [pattern |-> p, casing |-> k, given |-> TRUE, name |-> n] :
        p \in GenPatterns, k \in GenCasings, n \in PinNames }

\* the options of a batch: no name of their own, and the pattern under which
\* the pinned names give different usernames
GenManyOptions == { o \in GenOptions : ~o.given /\ o.pattern = "first.last" }

InitGen ==
    /\ build \in Builds
    /\ RngIdle
    /\ LoadIdle
    /\ StoreIdle
    /\ GenIdle
    /\ today = NoDate
    /\ DobIdle
    /\ UiIdle

\* an asynchronous step runs only between invocations: the generators are
\* synchronous
NextGen ==
    \/ \E c \in GenCalls : gPc = "idle" /\ InitCall(c) /\ UNCHANGED <<rngVars, loadVars, genVars, dobVars, uiVars>>
    \/ \E c \in GenCalls, i \in Sources : \E resp \in GenResponses(i) :
          gPc = "idle" /\ LoadSettle(c, i, resp) /\ UNCHANGED <<rngVars, loadVars, genVars, dobVars, uiVars>>
    \/ \E c \in GenCalls : gPc = "idle" /\ InitResume(c) /\ UNCHANGED <<rngVars, loadVars, genVars, dobVars, uiVars>>
    \/ CallNameGenerate /\ UNCHANGED <<rngVars, loadVars, storeVars, dobVars, uiVars>>
    \/ NameDrawFirst /\ UNCHANGED <<rngVars, loadVars, storeVars, dobVars, uiVars>>
    \/ NameDrawLast /\ UNCHANGED <<rngVars, loadVars, storeVars, dobVars, uiVars>>
    \/ \E count \in GenCounts : CallNameGenerateMany(count) /\ UNCHANGED <<rngVars, loadVars, storeVars, dobVars, uiVars>>
    \/ NameLoopStep /\ UNCHANGED <<rngVars, loadVars, storeVars, dobVars, uiVars>>
    \/ \E opts \in GenOptions : CallUsernameGenerate(opts) /\ UNCHANGED <<rngVars, loadVars, storeVars, dobVars, uiVars>>
    \/ \E count \in GenCounts, opts \in GenManyOptions, names \in NameSeqs(MaxNames) :
          CallUsernameGenerateMany(count, opts, names) /\ UNCHANGED <<rngVars, loadVars, storeVars, dobVars, uiVars>>
    \/ UsernameLoopStep /\ UNCHANGED <<rngVars, loadVars, storeVars, dobVars, uiVars>>
    \/ GenReturn /\ UNCHANGED <<rngVars, loadVars, storeVars, dobVars, uiVars>>

SpecGen == InitGen /\ [][NextGen]_vars

(***************************************************************************)
(* NameGen.generateMany(5) over pools of ten names                         *)
(***************************************************************************)
TenFirst ==
    << <<"A","l">>, <<"B","o">>, <<"C","y">>, <<"D","i">>, <<"E","d">>,
       <<"F","i">>, <<"G","u">>, <<"H","y">>, <<"I","o">>, <<"J","o">> >>
TenLast ==
    << <<"B","a">>, <<"C","a">>, <<"D","a">>, <<"F","a">>, <<"G","a">>,
       <<"H","a">>, <<"K","a">>, <<"L","a">>, <<"M","a">>, <<"N","a">> >>
\* the bodies of the two dataset files: one name per line
BatchResponses(i) ==
    { [ok |-> TRUE, text |-> JoinLines(IF i = 1 THEN TenFirst ELSE TenLast)] }
BatchCounts == {5}

\* the entropy considered: RNG.randomInt returns a value below BatchDraws when
\* a first name is picked and 0 when a last name is picked
BatchDraws == 5
BatchGenerate ==
    NameGenerateOver(
        { o \in getFirstName :
            o.kind = "raise" \/ \E k \in 1 .. BatchDraws :
                                   k <= Len(firstNames.arr) /\ o.name = firstNames.arr[k] },
        { o \in getLastName : o.kind = "raise" \/ o.name = lastNames.arr[1] })

InitBatch ==
    /\ build = "js"
    /\ RngIdle
    /\ LoadIdle
    /\ StoreIdle
    /\ GenIdle
    /\ today = NoDate
    /\ DobIdle
    /\ UiIdle

NextBatch ==
    \/ gPc = "idle" /\ InitCall(1) /\ UNCHANGED <<rngVars, loadVars, genVars, dobVars, uiVars>>
    \/ \E i \in Sources : \E resp \in BatchResponses(i) :
          gPc = "idle" /\ LoadSettle(1, i, resp) /\ UNCHANGED <<rngVars, loadVars, genVars, dobVars, uiVars>>
    \/ gPc = "idle" /\ InitResume(1) /\ UNCHANGED <<rngVars, loadVars, genVars, dobVars, uiVars>>
    \/ \E count \in BatchCounts : CallNameGenerateMany(count) /\ UNCHANGED <<rngVars, loadVars, storeVars, dobVars, uiVars>>
    \/ NameLoopStepOver(BatchGenerate) /\ UNCHANGED <<rngVars, loadVars, storeVars, dobVars, uiVars>>
    \/ GenReturn /\ UNCHANGED <<rngVars, loadVars, storeVars, dobVars, uiVars>>

SpecBatch == InitBatch /\ [][NextBatch]_vars

(***************************************************************************)
(* UsernameGen.generate as a function of its options and its digit draw    *)
(***************************************************************************)
\* pattern and casing ids a caller may pass: the catalog ids, an id that is
\* no key at all, and keys the lookup finds on Object.prototype
UserPatterns == PatternIds \cup {"unknown"} \cup InheritedKeys
UserCasings == CasingIds \cup {"unknown"} \cup InheritedKeys
\* names a caller may supply
UserNames ==
    { FullNameOf(<<"J","a","m","e","s">>, <<"W","i","l","s","o","n">>),
      FullNameOf(<<"A","l">>, <<"S","t",".","J","o">>) }
UserOptions ==
    { [pattern |-> p, casing |-> k, given |-> FALSE, name |-> NoName] :
        p \in UserPatterns, k \in UserCasings }
    \cup { [pattern |-> p, casing |-> k, given |-> TRUE, name |-> n] :
        p \in UserPatterns, k \in UserCasings, n \in UserNames }

\* the entropy considered: RNG.randomInt returns a value below 100, or one
\* of the values at which the number of decimal digits changes
DigitSamples == (0 .. 99) \cup {100, 999, 1000, 9999}
UserOutcomes(opts) == UsernameOutcomesOver(opts, DigitSamples)

InitUser ==
    /\ build \in Builds \cup {SingleFile}
    /\ RngIdle
    /\ LoadIdle
    /\ StoreIdle
    /\ GenIdle
    /\ today = NoDate
    /\ DobIdle
    /\ UiIdle

NextUser ==
    \/ \E opts \in UserOptions :
          CallUsernameGenerateOver(opts, UserOutcomes(opts)) /\ UNCHANGED <<rngVars, loadVars, storeVars, dobVars, uiVars>>
    \/ GenReturn /\ UNCHANGED <<rngVars, loadVars, storeVars, dobVars, uiVars>>

SpecUser == InitUser /\ [][NextUser]_vars

(***************************************************************************)
(* Claims about the generators (checked under SpecGen)                     *)
(***************************************************************************)
\* the usernames the options build from a supplied name
UsernamesOf(opts, name) ==
    { BuildUsername(opts, name, r) : r \in DigitDraws(ResolvePattern(opts.pattern)) }

\* C10 as stated: no generator operation returns a result when invoked before
\* DataStore.init has resolved successfully; every such invocation fails with
\* NotInitialized.
C10_GeneratorsNeedInit ==
    (gPc = "done" /\ ~SomeInitResolved)
        => gOut.kind = "raise" /\ gOut.err = NotInitialized

\* C10 amended: before init has resolved successfully an invocation fails
\* with NotInitialized exactly when it calls NameGen.generate and so reaches
\* DataStore.getFirstName: NameGen.generate always, NameGen.generateMany for
\* count >= 1, UsernameGen.generate without a supplied name,
\* UsernameGen.generateMany in an attempt without a supplied name; an
\* invocation that draws no name does not fail, and the usernames it returns
\* are built from the supplied names.
C10_NotInitializedIffDraw ==
    (gPc = "done" /\ ~SomeInitResolved)
        => /\ gOut.kind \in {"raise", "value"}
           /\ gOut.kind = "raise" <=> gFresh > 0
           /\ gOut.kind = "raise" => gOut.err = NotInitialized
           /\ gOp = "NameGen.generate" => gOut.kind = "raise"
           /\ gOp = "NameGen.generateMany" =>
                 /\ gOut.kind = "raise" <=> gCount >= 1
                 /\ gOut.kind = "value" => gOut.list = <<>>
           /\ gOp = "UsernameGen.generate" =>
                 /\ gOut.kind = "raise" <=> ~gOpts.given
                 /\ gOut.kind = "value" => gOut.str \in UsernamesOf(gOpts, gOpts.name)
           /\ gOp = "UsernameGen.generateMany" =>
                 /\ gCount >= 1 /\ gNames = <<>> => gOut.kind = "raise"
                 /\ gCount <= 0 => gOut.kind = "value" /\ gOut.list = <<>>
                 /\ gOut.kind = "value" =>
                       \A k \in 1 .. Len(gOut.list) :
                           \E j \in 1 .. Len(gNames) : gOut.list[k] \in UsernamesOf(gOpts, gNames[j])

\* C10 witness: while init is still loading, generateMany used its one
\* supplied name and failed in the attempt that had none
C10_Witness ==
    /\ initPc[1] = "awaiting"
    /\ gOp = "UsernameGen.generateMany" /\ gPc = "done"
    /\ Len(gNames) = 1 /\ gAttempts = 1
    /\ gOut.kind = "raise" /\ gOut.err = NotInitialized

\* C12: NameGen.generate draws one first name and then between 1 and 100 last
\* names; every last-name draw before the one it stops at equalled the first
\* name case-insensitively; it returns {first, last, full} with
\* full = first + ' ' + last; the returned first and last are equal
\* case-insensitively only if all 100 draws equalled the first name.
C12_GenerateDraws ==
    /\ (gOp = "NameGen.generate" /\ gPc = "last" /\ nAttempts >= 1)
          => SameNoCase(nLast, nFirst) /\ nAttempts < 100
    /\ (gOp = "NameGen.generate" /\ gPc = "done" /\ gOut.kind = "value")
          => /\ nAttempts \in 1 .. 100
             /\ nFirst \in Elems(firstNames.arr)
             /\ nLast \in Elems(lastNames.arr)
             /\ gOut.name = [first |-> nFirst, last |-> nLast,
                             full |-> nFirst \o <<" ">> \o nLast]
             /\ SameNoCase(nFirst, nLast) => nAttempts = 100

\* C12 witness: generate has returned a name whose first and last are equal
\* after 100 last-name draws
C12_Witness ==
    /\ gOp = "NameGen.generate" /\ gPc = "done" /\ gOut.kind = "value"
    /\ nAttempts = 100
    /\ SameNoCase(gOut.name.first, gOut.name.last)

\* the full strings of a list of names are pairwise different, letter case
\* ignored
DistinctFull(list) ==
    \A i \in 1 .. Len(list), j \in 1 .. Len(list) :
        i # j => ~SameNoCase(list[i].full, list[j].full)

\* C13 as stated: the entries NameGen.generateMany(count) returns have
\* pairwise distinct full strings, compared case-insensitively, also when the
\* attempt cap cuts the batch short; against pools of size >= 10,
\* generateMany(5) returns 5 such entries.
C13_DistinctBatch ==
    (gOp = "NameGen.generateMany" /\ gPc = "done" /\ gOut.kind = "value")
        => /\ DistinctFull(gOut.list)
           /\ (Len(firstNames.arr) >= 10 /\ Len(lastNames.arr) >= 10 /\ gCount = 5)
                 => Len(gOut.list) = 5

\* C13 amended: the entries are pairwise distinct as stated; against pools of
\* size >= 10, generateMany(5) returns 5 entries unless repeated draws use up
\* all 250 attempts, and then it returns between 1 and 4 entries.
C13_DistinctBatchOrCap ==
    /\ gOp = "NameGen.generateMany" => DistinctFull(gResults)
    /\ (gOp = "NameGen.generateMany" /\ gPc = "done" /\ gOut.kind = "value")
          => /\ DistinctFull(gOut.list)
             /\ (Len(firstNames.arr) >= 10 /\ Len(lastNames.arr) >= 10 /\ gCount = 5)
                   => \/ Len(gOut.list) = 5
                      \/ gAttempts = 250 /\ Len(gOut.list) \in 1 .. 4

\* C13 witness: over pools of ten names generateMany(5) has returned four
\* entries after 250 attempts
C13_Witness ==
    /\ gOp = "NameGen.generateMany" /\ gPc = "done" /\ gOut.kind = "value"
    /\ Len(firstNames.arr) = 10 /\ Len(lastNames.arr) = 10 /\ gCount = 5
    /\ Len(gOut.list) = 4 /\ gAttempts = 250

\* C14: NameGen.generateMany(count) makes at most count * 50 calls of
\* generate, returns at most count entries in generation order, returns fewer
\* than count entries only when all count * 50 attempts were used, and raises
\* no error for the shortfall.
C14_BatchBounded ==
    /\ [](gOp = "NameGen.generateMany" =>
             /\ gFresh <= (IF gCount >= 1 THEN gCount * 50 ELSE 0)
             /\ gAttempts <= gFresh
             /\ Len(gResults) <= gAttempts
             /\ gPc = "done" /\ gOut.kind = "value" =>
                   /\ gOut.list = gResults
                   /\ Len(gOut.list) <= (IF gCount >= 1 THEN gCount ELSE 0)
                   /\ Len(gOut.list) < gCount => gAttempts = gCount * 50
             /\ gPc = "done" /\ isReady => gOut.kind = "value"
             /\ gPc = "done" /\ gOut.kind = "raise" => gOut.err = NotInitialized)
    /\ [][(gOp = "NameGen.generateMany" /\ gOp' = gOp) =>
             \/ gResults' = gResults
             \/ Len(gResults') = Len(gResults) + 1 /\ SubSeq(gResults', 1, Len(gResults)) = gResults]_vars

\* C14 witness: generateMany(2) has returned one entry after 100 attempts
C14_Witness ==
    /\ gOp = "NameGen.generateMany" /\ gPc = "done" /\ gOut.kind = "value"
    /\ gCount = 2 /\ Len(gOut.list) = 1 /\ gAttempts = 100

\* C15: a batch operation called with a non-positive count fails with
\* InvalidArgument, before any name or entropy is drawn, instead of returning
\* a result.
C15_NonPositiveCountRaises ==
    (gOp \in {"NameGen.generateMany", "UsernameGen.generateMany"} /\ gPc = "done" /\ gCount <= 0)
        => gOut.kind = "raise" /\ gOut.err = InvalidArgument

(***************************************************************************)
(* Claims about UsernameGen.generate (checked under SpecUser)              *)
(***************************************************************************)
RefLower(str) == [i \in 1 .. Len(str) |-> ToLowerChar(str[i])]
RefCapital(str) == [i \in 1 .. Len(str) |-> IF i = 1 THEN ToUpperChar(str[i]) ELSE str[i]]
RefDigits == {"0","1","2","3","4","5","6","7","8","9"}
RefDigitValue(c) == CHOOSE d \in 0 .. 9 : DigitChars[d + 1] = c
\* the number a string of decimal digits denotes
RefNumber(ds) ==
    LET pos(i) == RefDigitValue(ds[i]) * 10 ^ (Len(ds) - i)
        sum[i \in 0 .. Len(ds)] == IF i = 0 THEN 0 ELSE sum[i - 1] + pos(i)
    IN  sum[Len(ds)]
\* the width of the digit block of a catalog pattern
RefWidth(pattern) ==
    CASE pattern = "first_digits" -> 4
      [] pattern \in {"initial_last_digits", "last_digits"} -> 3
      [] pattern = "firstlast_digits" -> 2
      [] pattern \in {"first.last", "initial_last"} -> 0
\* what a catalog pattern puts before its digit block
RefBody(pattern, f, l) ==
    CASE pattern = "first.last" -> f \o <<".">> \o l
      [] pattern = "first_digits" -> f
      [] pattern \in {"initial_last", "initial_last_digits"} -> <<f[1]>> \o <<".">> \o l
      [] pattern = "firstlast_digits" -> f \o l
      [] pattern = "last_digits" -> l
GenerateDone == gOp = "UsernameGen.generate" /\ gPc = "done"

\* C16: for each of the six pattern ids the raw (pre-casing) username is the
\* catalog builder applied to the lowercased first and last names, and each
\* digit block of width n (4 for first_digits, 3 for initial_last_digits and
\* last_digits, 2 for firstlast_digits) comes from exactly one randomInt(10^n)
\* call and is exactly n decimal digits, left-padded with zeros.
C16_RawUsername ==
    (GenerateDone /\ build \in Builds /\ gOpts.given /\ gOpts.pattern \in PatternIds)
        => LET f    == RefLower(gOpts.name.first)
               l    == RefLower(gOpts.name.last)
               n    == RefWidth(gOpts.pattern)
               body == RefBody(gOpts.pattern, f, l)
               ds   == SubSeq(gLog.raw, Len(body) + 1, Len(gLog.raw))
           IN  /\ Len(gLog.raw) = Len(body) + n
               /\ SubSeq(gLog.raw, 1, Len(body)) = body
               /\ \A i \in 1 .. Len(ds) : ds[i] \in RefDigits
               /\ IF n = 0 THEN gLog.calls = <<>>
                  ELSE /\ Len(gLog.calls) = 1
                       /\ gLog.calls[1].max = 10 ^ n
                       /\ gLog.calls[1].val \in 0 .. (10 ^ n - 1)
                       /\ gLog.calls[1].val = RefNumber(ds)

\* C16 witness: initial_last_digits has drawn 7 and built j.wilson007
C16_Witness ==
    /\ GenerateDone /\ build = "ts" /\ gOpts.given /\ gOpts.pattern = "initial_last_digits"
    /\ gLog.calls = << [max |-> 1000, val |-> 7] >>
    /\ gLog.raw = <<"j",".","w","i","l","s","o","n","0","0","7">>

\* C17: for pattern firstlast_digits with casing pascal, generate returns the
\* first name with its first letter capitalised, immediately followed by the
\* last name with its first letter capitalised, followed by exactly 2 decimal
\* digits (James Wilson gives JamesWilson and two digits).
C17_PascalFirstLast ==
    (GenerateDone /\ build \in Builds /\ gOpts.given
        /\ gOpts.pattern = "firstlast_digits" /\ gOpts.casing = "pascal")
        => LET f  == RefCapital(RefLower(gOpts.name.first))
               l  == RefCapital(RefLower(gOpts.name.last))
               ds == SubSeq(gOut.str, Len(f) + Len(l) + 1, Len(gOut.str))
           IN  /\ gOut.kind = "value"
               /\ Len(gOut.str) = Len(f) + Len(l) + 2
               /\ SubSeq(gOut.str, 1, Len(f) + Len(l)) = f \o l
               /\ \A i \in 1 .. Len(ds) : ds[i] \in RefDigits

\* C18: when options.name is supplied, generate uses exactly that name and
\* never reaches NameGen or the pools (which are null here), in every build
\* of the engine; with a
\* digit-free pattern it draws no entropy and its result is a function of the
\* options; for first.last with casing lower the result is
\* lower(first) + '.' + lower(last) (James Wilson gives james.wilson).
C18_SuppliedName ==
    (GenerateDone /\ gOpts.given)
        => /\ gFresh = 0
           /\ gOut.kind = "raise" => gOut.err # NotInitialized
           /\ (gOpts.pattern \in PatternIds /\ gOpts.casing \in CasingIds) =>
                 /\ gOut.kind = "value"
                 /\ gOpts.pattern \in {"first.last", "initial_last"} =>
                       /\ gLog.calls = <<>>
                       /\ UsernameGenerate(gOpts) = { gOut }
                 /\ (gOpts.pattern = "first.last" /\ gOpts.casing = "lower") =>
                       /\ gOut.str = RefLower(gOpts.name.first) \o <<".">> \o RefLower(gOpts.name.last)
                       /\ gOpts.name.full = <<"J","a","m","e","s"," ","W","i","l","s","o","n">>
                             => gOut.str = <<"j","a","m","e","s",".","w","i","l","s","o","n">>

\* C19: generate never fails because of an unknown option value: a pattern id
\* outside the six catalog ids gives a result of first_digits, and a casing
\* id outside lower/upper/camel/pascal gives the result of lower.
C19_UnknownIdsDefault ==
    (GenerateDone /\ build \in Builds /\ gOpts.given
        /\ (gOpts.pattern \notin PatternIds \/ gOpts.casing \notin CasingIds))
        => LET p == IF gOpts.pattern \in PatternIds THEN gOpts.pattern ELSE "first_digits"
               k == IF gOpts.casing \in CasingIds THEN gOpts.casing ELSE "lower"
           IN  /\ gOut.kind = "value"
               /\ \E x \in UserOutcomes([gOpts EXCEPT !.pattern = p, !.casing = k]) : x.out = gOut

(***************************************************************************)
(* Claims about UsernameGen.generateMany (checked under SpecGen)           *)
(***************************************************************************)
UserCap == IF gCount >= 1 THEN gCount * 100 ELSE 0
DistinctUsernames(list) ==
    \A i \in 1 .. Len(list), j \in 1 .. Len(list) : list[i] = list[j] => i = j

\* C20: UsernameGen.generateMany(count, options, names) ends after at most
\* count * 100 calls of generate and returns at most count usernames that are
\* pairwise distinct; when the attempts are used up it returns the shorter
\* list it has, without raising an error.
C20_UserBatchBounded ==
    /\ [](gOp = "UsernameGen.generateMany" =>
             /\ gIndex <= UserCap
             /\ gAttempts <= gIndex
             /\ Len(gResults) <= gAttempts
             /\ DistinctUsernames(gResults)
             /\ gPc = "done" /\ gOut.kind = "value" =>
                   /\ gOut.list = gResults
                   /\ Len(gOut.list) <= (IF gCount >= 1 THEN gCount ELSE 0)
                   /\ Len(gOut.list) < gCount => gAttempts = UserCap
             /\ gPc = "done" /\ gAttempts = UserCap => gOut.kind = "value"
             /\ gPc = "done" /\ gOut.kind = "raise" => gOut.err = NotInitialized)
    /\ [][(gOp = "UsernameGen.generateMany" /\ gPc = "loop" /\ gAttempts = UserCap) =>
             (gPc' = "done" /\ gOut' = GenList(gResults))]_vars

\* C20 witness: two pinned names giving the same username, generateMany(2)
\* has returned one username after 200 attempts
C20_Witness ==
    /\ gOp = "UsernameGen.generateMany" /\ gPc = "done" /\ gOut.kind = "value"
    /\ gCount = 2 /\ Len(gNames) = 2 /\ Len(gOut.list) = 1 /\ gAttempts = 200

\* the username the options of the batch give for a name
UsernameOfEntry(name) == BuildUsername(gOpts, name, 0)

\* C21: every username generateMany(count, options, names) returns at an
\* index i below the length of names is built from names[i], also when two
\* entries of names give the same username and an attempt is rejected as a
\* duplicate.
C21_ResultsFollowNames ==
    gOp = "UsernameGen.generateMany" =>
        \A i \in 1 .. Len(gResults) :
            i <= Len(gNames) => /\ gLog.from[i] = i
                                /\ gResults[i] = UsernameOfEntry(gNames[i])

\* C22: generateMany consumes names once per attempt, in order: attempt k
\* (from 0, rejected duplicates counted) uses names[k] when k is below the
\* length of names and a freshly generated name otherwise, and no entry of
\* names is used by more than one attempt.
C22_NamesOncePerAttempt ==
    /\ [](gOp = "UsernameGen.generateMany" =>
             \A i \in 1 .. Len(gLog.uses) : gLog.uses[i] <= 1)
    /\ [][(gOp = "UsernameGen.generateMany" /\ gPc = "loop" /\ gIndex' = gIndex + 1) =>
             IF gIndex < Len(gNames)
             THEN /\ gLog'.uses = [gLog.uses EXCEPT ![gIndex + 1] = @ + 1]
                  /\ gFresh' = gFresh
             ELSE /\ gLog'.uses = gLog.uses
                  /\ gFresh' = gFresh + 1]_vars

(***************************************************************************)
(* DOBGen: generateDate and format                                         *)
(***************************************************************************)
IsLeapYear(y) == (y % 4 = 0 /\ y % 100 # 0) \/ y % 400 = 0
\* the number of days of month m (0 is January) of year y
DaysOfMonth(y, m) ==
    IF m = 1 THEN (IF IsLeapYear(y) THEN 29 ELSE 28)
    ELSE IF m \in {3, 5, 8, 10} THEN 30 ELSE 31

\* the date of day number date of month mn of year yr, date being counted
\* from the first of the month: 0 is the last day of the month before, a
\* number past the end of the month runs into the following months
RECURSIVE MakeDay(_, _, _)
MakeDay(yr, mn, date) ==
    IF date \in 1 .. DaysOfMonth(yr, mn) THEN [y |-> yr, m |-> mn, d |-> date]
    ELSE IF date < 1
    THEN LET py == IF mn = 0 THEN yr - 1 ELSE yr
             pm == IF mn = 0 THEN 11 ELSE mn - 1
         IN  MakeDay(py, pm, date + DaysOfMonth(py, pm))
    ELSE LET ny == IF mn = 11 THEN yr + 1 ELSE yr
             nm == IF mn = 11 THEN 0 ELSE mn + 1
         IN  MakeDay(ny, nm, date - DaysOfMonth(yr, mn))

\* new Date(year, month, date) in local time: a year from 0 to 99 stands for
\* 1900 + year, a month past December runs into the next year
NewDate(year, month, date) ==
    LET full == IF year \in 0 .. 99 THEN 1900 + year ELSE year
    IN  MakeDay(full + (month \div 12), month % 12, date)

DobRaise(e) == [NoDOut EXCEPT !.kind = "raise", !.err = e]
DobDate(date) == [NoDOut EXCEPT !.kind = "date", !.date = date]
DobStr(str) == [NoDOut EXCEPT !.kind = "str", !.str = str]
DobUndefined == [NoDOut EXCEPT !.kind = "undefined"]

\* if (minAge < 1 || maxAge < 1) throw new RangeError
AgeNotPositive(opts) == opts.minAge < 1 \/ opts.maxAge < 1
\* if (minAge > maxAge) throw new RangeError; the single-file build has
\* if (minAge >= maxAge)
AgeOrderRejects(opts) ==
    IF build = SingleFile THEN opts.minAge >= opts.maxAge ELSE opts.minAge > opts.maxAge

\* RNG.randomInt(max) for an integer max from 1 to 2^32: a value below max
IntDraws(max) == 0 .. (max - 1)
\* RNG.randomRange(min, max) == min + randomInt(max - min + 1)
RangeDraws(min, max) == { min + r : r \in IntDraws(max - min + 1) }

\* generateDate(opts): the outcomes, each with the RNG calls made; ages,
\* months and days are the values considered for the results of the three
\* RNG calls
GenerateDateOver(opts, ages, months, days) ==
    IF AgeNotPositive(opts) \/ AgeOrderRejects(opts)
    THEN { [out |-> DobRaise(InvalidArgument), calls |-> <<>>] }
    ELSE { LET birthYear   == today.y - c[1]
               daysInMonth == NewDate(birthYear, c[2] + 1, 0).d
           IN  [out   |-> DobDate(NewDate(birthYear, c[2], 1 + c[3])),
                calls |-> << [op |-> "randomRange", min |-> opts.minAge, max |-> opts.maxAge, val |-> c[1]],
                             [op |-> "randomInt", min |-> 0, max |-> 12, val |-> c[2]],
                             [op |-> "randomInt", min |-> 0, max |-> daysInMonth, val |-> c[3]] >>]
           : c \in { x \in (RangeDraws(opts.minAge, opts.maxAge) \cap ages)
                              \X (IntDraws(12) \cap months) \X days :
                       x[3] \in IntDraws(NewDate(today.y - x[1], x[2] + 1, 0).d) } }
GenerateDate(opts) == GenerateDateOver(opts, RangeDraws(opts.minAge, opts.maxAge), IntDraws(12), IntDraws(31))

MONTH_NAMES ==
    << <<"J","a","n","u","a","r","y">>,
       <<"F","e","b","r","u","a","r","y">>,
       <<"M","a","r","c","h">>,
       <<"A","p","r","i","l">>,
       <<"M","a","y">>,
       <<"J","u","n","e">>,
       <<"J","u","l","y">>,
       <<"A","u","g","u","s","t">>,
       <<"S","e","p","t","e","m","b","e","r">>,
       <<"O","c","t","o","b","e","r">>,
       <<"N","o","v","e","m","b","e","r">>,
       <<"D","e","c","e","m","b","e","r">> >>

FormatIds == {"iso", "us", "eu", "long"}
FormatDateYearOnly(date, fmt) == DobStr(DecimalString(date.y))
\* format(date, fmt); formatDate of the TypeScript build has no default case
\* and returns undefined for a fmt outside the four ids
FormatDate(date, fmt) ==
    LET y   == DecimalString(date.y)
        mm  == PadStart(DecimalString(date.m + 1), 2)
        dd  == PadStart(DecimalString(date.d), 2)
        iso == y \o <<"-">> \o mm \o <<"-">> \o dd
    IN  CASE fmt = "iso"  -> DobStr(iso)
          [] fmt = "us"   -> DobStr(mm \o <<"/">> \o dd \o <<"/">> \o y)
          [] fmt = "eu"   -> DobStr(dd \o <<"/">> \o mm \o <<"/">> \o y)
          [] fmt = "long" -> DobStr(MONTH_NAMES[date.m + 1] \o <<" ">> \o DecimalString(date.d)
                                        \o <<",", " ">> \o y)
          [] OTHER        -> IF build = "ts" THEN DobUndefined ELSE DobStr(iso)

\* ---- invocations ----
\* generateDate(opts) is called
CallGenerateDate(opts) ==
    /\ dPc = "idle"
    /\ dPc' = "date"
    /\ dOpts' = opts
    /\ \E x \in GenerateDate(opts) : dOut' = x.out /\ dCalls' = x.calls
    /\ UNCHANGED <<build, today>>

\* generateMany's callback goes on: format(generateDate(opts), opts.format)
DobFormat ==
    /\ dPc = "date"
    /\ dOut.kind = "date"
    /\ dPc' = "text"
    /\ dOut' = [FormatDate(dOut.date, dOpts.format) EXCEPT !.date = dOut.date]
    /\ UNCHANGED <<build, today, dOpts, dCalls>>

\* format(date, fmt) is called with a date of its own
CallFormat(date, fmt) ==
    /\ dPc = "idle"
    /\ dPc' = "text"
    /\ dOpts' = [NoDobOpts EXCEPT !.format = fmt]
    /\ dCalls' = <<>>
    /\ dOut' = [FormatDate(date, fmt) EXCEPT !.date = date]
    /\ UNCHANGED <<build, today>>

\* the caller has the outcome
DobReturn ==
    /\ dPc \in {"date", "text"}
    /\ dPc' = "idle"
    /\ dOpts' = NoDobOpts
    /\ dCalls' = <<>>
    /\ dOut' = NoDOut
    /\ UNCHANGED <<build, today>>

\* ---- the calls considered ----
MaxSpan == 1
DobAges == {-1, 0, 1, 2, 5, 30, 1930}
DobFormats == FormatIds \cup {"unknown"}
DobOptions ==
    { o \in [minAge : DobAges, maxAge : DobAges, format : DobFormats] :
        o.maxAge - o.minAge <= MaxSpan }
\* current dates: a leap day, the day after February, a day late in the year
Todays == { [y |-> 2024, m |-> 1, d |-> 29], [y |-> 2025, m |-> 2, d |-> 1],
            [y |-> 2026, m |-> 10, d |-> 4] }
FormatDates == { [y |-> 2024, m |-> 1, d |-> 29], [y |-> 1999, m |-> 11, d |-> 1],
                 [y |-> 2000, m |-> 0, d |-> 12] }

InitDob ==
    /\ build \in Builds \cup {SingleFile}
    /\ RngIdle
    /\ LoadIdle
    /\ StoreIdle
    /\ GenIdle
    /\ today \in Todays
    /\ DobIdle
    /\ UiIdle

NextDob ==
    \/ \E opts \in DobOptions :
          CallGenerateDate(opts) /\ UNCHANGED <<rngVars, loadVars, storeVars, genVars, uiVars>>
    \/ DobFormat /\ UNCHANGED <<rngVars, loadVars, storeVars, genVars, uiVars>>
    \/ \E date \in FormatDates, fmt \in DobFormats :
          CallFormat(date, fmt) /\ UNCHANGED <<rngVars, loadVars, storeVars, genVars, uiVars>>
    \/ DobReturn /\ UNCHANGED <<rngVars, loadVars, storeVars, genVars, uiVars>>

SpecDob == InitDob /\ [][NextDob]_vars

(***************************************************************************)
(* Claims about DOBGen (checked under SpecDob)                             *)
(***************************************************************************)
GenerateDateDone == dPc = "date"
\* the age in whole years a birth date implies on a current date
ImpliedAge(birth, now) ==
    now.y - birth.y - (IF now.m < birth.m \/ (now.m = birth.m /\ now.d < birth.d) THEN 1 ELSE 0)
RefMonthDays == <<31, 28, 31, 30, 31, 30, 31, 31, 30, 31, 30, 31>>
RefDaysIn(y, m) ==
    IF m = 1 /\ ((y % 4 = 0 /\ y % 100 # 0) \/ y % 400 = 0) THEN 29 ELSE RefMonthDays[m + 1]
RefTwo(n) == <<DigitChars[((n \div 10) % 10) + 1], DigitChars[(n % 10) + 1]>>
RefFour(n) == RefTwo(n \div 100) \o RefTwo(n % 100)
RefPlain(n) == IF n < 10 THEN <<DigitChars[n + 1]>> ELSE RefTwo(n)
RefIso(date) == RefFour(date.y) \o <<"-">> \o RefTwo(date.m + 1) \o <<"-">> \o RefTwo(date.d)
RefFormat(date, fmt) ==
    CASE fmt = "us"   -> RefTwo(date.m + 1) \o <<"/">> \o RefTwo(date.d) \o <<"/">> \o RefFour(date.y)
      [] fmt = "eu"   -> RefTwo(date.d) \o <<"/">> \o RefTwo(date.m + 1) \o <<"/">> \o RefFour(date.y)
      [] fmt = "long" -> MONTH_NAMES[date.m + 1] \o <<" ">> \o RefPlain(date.d) \o <<",", " ">> \o RefFour(date.y)
      [] OTHER        -> RefIso(date)

\* the inverse parsers of the four formats
IsNumber(ds) == ds # <<>> /\ \A i \in 1 .. Len(ds) : ds[i] \in RefDigits
ParseFields(parts, yi, mi, di) ==
    IF Len(parts) = 3 /\ \A i \in 1 .. 3 : IsNumber(parts[i])
    THEN [y |-> RefNumber(parts[yi]), m |-> RefNumber(parts[mi]) - 1, d |-> RefNumber(parts[di])]
    ELSE NoDate
ParseLong(str) ==
    LET parts == SplitOn(str, " ")
    IN  IF /\ Len(parts) = 3
           /\ \E i \in 1 .. 12 : MONTH_NAMES[i] = parts[1]
           /\ Len(parts[2]) >= 2 /\ parts[2][Len(parts[2])] = ","
           /\ IsNumber(SubSeq(parts[2], 1, Len(parts[2]) - 1)) /\ IsNumber(parts[3])
        THEN [y |-> RefNumber(parts[3]),
              m |-> (CHOOSE i \in 1 .. 12 : MONTH_NAMES[i] = parts[1]) - 1,
              d |-> RefNumber(SubSeq(parts[2], 1, Len(parts[2]) - 1))]
        ELSE NoDate
ParseDate(str, fmt) ==
    CASE fmt = "iso"  -> ParseFields(SplitOn(str, "-"), 1, 2, 3)
      [] fmt = "us"   -> ParseFields(SplitOn(str, "/"), 3, 1, 2)
      [] fmt = "eu"   -> ParseFields(SplitOn(str, "/"), 3, 2, 1)
      [] fmt = "long" -> ParseLong(str)
      [] OTHER        -> NoDate

\* C23: generateDate({minAge, maxAge}) fails with InvalidArgument, before any
\* entropy is drawn, exactly when minAge < 1 or maxAge < 1 or minAge > maxAge;
\* minAge = maxAge >= 1 is accepted and gives a date, and {minAge: 5,
\* maxAge: 1} is rejected.
C23_GenerateDateRejects ==
    GenerateDateDone =>
        IF dOpts.minAge < 1 \/ dOpts.maxAge < 1 \/ dOpts.minAge > dOpts.maxAge
        THEN dOut = DobRaise(InvalidArgument) /\ dCalls = <<>>
        ELSE dOut.kind = "date"

\* C24: for every date generateDate({minAge, maxAge}) returns, and every
\* current date, the age in whole years the birth date implies on the current
\* date lies in minAge .. maxAge (minAge = maxAge = 30 gives exactly 30).
C24_ImpliedAgeInRange ==
    (GenerateDateDone /\ build \in Builds /\ dOut.kind = "date")
        => ImpliedAge(dOut.date, today) \in dOpts.minAge .. dOpts.maxAge

\* C25: format(date, fmt) returns YYYY-MM-DD for iso, MM/DD/YYYY for us,
\* DD/MM/YYYY for eu (month and day padded to 2 digits), 'MonthName D, YYYY'
\* for long (day not padded), and for every other fmt the string of iso;
\* 2024-02-29 gives '2024-02-29' and 'February 29, 2024'.
C25_FormatLayouts ==
    (dPc = "text" /\ build \in Builds)
        => /\ dOut.kind = "str"
           /\ dOut.str = RefFormat(dOut.date, dOpts.format)

\* C26: for each of the formats iso, us, eu and long and every date
\* generateDate produces, parsing format(date, fmt) with the inverse parser
\* of fmt gives back the year, month and day of the date.
C26_FormatRoundTrip ==
    (dPc = "text" /\ dOpts.format \in FormatIds)
        => /\ dOut.kind = "str"
           /\ ParseDate(dOut.str, dOpts.format) = dOut.date

\* C26 witness: generateDate has produced 29 February 2024 and format has
\* rendered it in the long format
C26_Witness ==
    /\ dPc = "text" /\ dCalls # <<>> /\ dOpts.format = "long"
    /\ dOut.date = [y |-> 2024, m |-> 1, d |-> 29]
    /\ ParseDate(dOut.str, "long") = dOut.date

\* C27: every date generateDate returns is a real calendar date whose year is
\* currentYear - age for an integer age in minAge .. maxAge, whose month is
\* January .. December and whose day is in 1 .. daysInMonth(year, month); 29
\* February occurs only in a leap year and no day runs into the next month.
C27_RealCalendarDate ==
    (GenerateDateDone /\ build \in Builds /\ dOut.kind = "date")
        => /\ \E age \in dOpts.minAge .. dOpts.maxAge : dOut.date.y = today.y - age
           /\ dOut.date.m \in 0 .. 11
           /\ dOut.date.d \in 1 .. RefDaysIn(dOut.date.y, dOut.date.m)
           /\ dOut.date.m = dCalls[2].val
           /\ dOut.date.d = 1 + dCalls[3].val

(***************************************************************************)
(* Claim about the redraw loop of randomInt (checked under SpecRng)        *)
(***************************************************************************)
\* C28: for every argument randomInt accepts without raising, the rejection
\* threshold is greater than 0 (greater than half the word range for max from
\* 2 to the word range), so some draw is accepted and the redraw loop ends
\* once the entropy source yields it; no accepted argument makes the loop
\* reject every draw.
C28_ThresholdPositive ==
    rngPc = "draw"
        => /\ threshold > 0
           /\ CurrentMax \in 2 .. WordRange => 2 * threshold > WordRange
           /\ \E w \in Words : Accepted(w, threshold)

(***************************************************************************)
(* The UI: the age inputs, the DOB handler and Renderer.render             *)
(***************************************************************************)
NaN == [nan |-> TRUE, v |-> 0]
Number(n) == [nan |-> FALSE, v |-> n]

\* the value of a string of decimal digits
DigitsValue(ds) ==
    LET digit(c) == CHOOSE d \in 0 .. 9 : DigitChars[d + 1] = c
        sum[i \in 0 .. Len(ds)] == IF i = 0 THEN 0 ELSE sum[i - 1] * 10 + digit(ds[i])
    IN  sum[Len(ds)]

\* parseInt(str, 10): leading white space is skipped, a sign is read, then the
\* longest run of decimal digits; no digit gives NaN
ParseInt(str) ==
    LET IsDigit(c) == \E d \in 1 .. 10 : DigitChars[d] = c
        blanks == { i \in 1 .. Len(str) : \A j \in 1 .. i : str[j] = " " }
        start  == Cardinality(blanks) + 1
        signed == start <= Len(str) /\ str[start] \in {"-", "+"}
        from   == IF signed THEN start + 1 ELSE start
        run    == { i \in from .. Len(str) : \A j \in from .. i : IsDigit(str[j]) }
        digits == SubSeq(str, from, from + Cardinality(run) - 1)
    IN  IF run = {} THEN NaN
        ELSE IF signed /\ str[start] = "-" THEN Number(0 - DigitsValue(digits))
        ELSE Number(DigitsValue(digits))

\* String(n) for an integer n
NumberString(n) == IF n < 0 THEN <<"-">> \o DecimalString(0 - n) ELSE DecimalString(n)

MaxOf(a, b) == IF a >= b THEN a ELSE b

\* readAgeRange(): the range it returns.  The plain-script and single-file
\* builds replace maxAge only when it is NaN or above 99; the TypeScript build
\* also replaces a maxAge below 1
readAgeRange ==
    LET rawMin == ParseInt(minAgeInput)
        rawMax == ParseInt(maxAgeInput)
        min1   == IF rawMin.nan \/ rawMin.v < 1 THEN 1 ELSE rawMin.v
        max1   == IF build = "ts"
                  THEN LET m == IF rawMax.nan \/ rawMax.v < 1 THEN 1 ELSE rawMax.v
                       IN  IF m > 99 THEN 99 ELSE m
                  ELSE IF rawMax.nan \/ rawMax.v > 99 THEN 99 ELSE rawMax.v
        min2   == IF min1 >= max1 THEN MaxOf(1, max1 - 1) ELSE min1
    IN  [minAge |-> min2, maxAge |-> max1]

\* the user edits the two age inputs
TypeAges(minText, maxText) ==
    /\ minAgeInput' = minText
    /\ maxAgeInput' = maxText
    /\ UNCHANGED <<build, container, frames, rendered, uiOut>>

MaxPending == 2

\* Renderer.render(container, values): the container is emptied at once, the
\* items are appended by an animation-frame callback
Render(values) ==
    /\ container' = <<>>
    /\ frames' = Append(frames, values)
    /\ rendered' = values

\* a handler renders values of its own into the container
CallRender(values) ==
    /\ Len(frames) < MaxPending
    /\ Render(values)
    /\ UNCHANGED <<build, minAgeInput, maxAgeInput, uiOut>>

\* the browser runs the animation-frame callbacks scheduled so far, in the
\* order of their requests
RunFrame ==
    /\ frames # <<>>
    /\ container' = container \o Concat(frames)
    /\ frames' = <<>>
    /\ UNCHANGED <<build, minAgeInput, maxAgeInput, rendered, uiOut>>

\* the entropy considered in the DOB handler: the youngest age, February,
\* the first day
HandlerDates(opts) == GenerateDateOver(opts, {opts.minAge}, {1}, {0})

\* Handlers.generateDOB with the count slider at 1 and the format iso:
\* readAgeRange writes the range back to the inputs, DOBGen.generateMany
\* builds one date, Renderer.render shows it; a RangeError ends the handler
\* before render
GenerateDOB ==
    /\ Len(frames) < MaxPending
    /\ LET range == readAgeRange
           opts  == [minAge |-> range.minAge, maxAge |-> range.maxAge, format |-> "iso"]
       IN  /\ minAgeInput' = NumberString(range.minAge)
           /\ maxAgeInput' = NumberString(range.maxAge)
           /\ \E x \in HandlerDates(opts) :
                 IF x.out.kind = "raise"
                 THEN /\ uiOut' = [kind |-> "raise", err |-> x.out.err,
                                   minAge |-> range.minAge, maxAge |-> range.maxAge]
                      /\ UNCHANGED <<container, frames, rendered>>
                 ELSE /\ uiOut' = [kind |-> "ok", err |-> "none",
                                   minAge |-> range.minAge, maxAge |-> range.maxAge]
                      /\ Render(<< FormatDate(x.out.date, opts.format).str >>)
    /\ UNCHANGED build

\* ---- the inputs considered ----
\* the inputs are empty when the page is loaded
AgeTexts == { <<"x">>, <<"0">>, <<"-", "3">>, <<"1">>, <<" ", "2", "y">>, <<"1", "0", "0">> }
RenderValues == { << <<"a">>, <<"b">> >> }
UiToday == [y |-> 2026, m |-> 10, d |-> 4]

InitUi ==
    /\ build \in Builds \cup {SingleFile}
    /\ RngIdle
    /\ LoadIdle
    /\ StoreIdle
    /\ GenIdle
    /\ today = UiToday
    /\ DobIdle
    /\ UiIdle

NextUi ==
    \/ \E a \in AgeTexts, b \in AgeTexts :
          TypeAges(a, b) /\ UNCHANGED <<rngVars, loadVars, storeVars, genVars, dobVars>>
    \/ GenerateDOB /\ UNCHANGED <<rngVars, loadVars, storeVars, genVars, dobVars>>
    \/ \E values \in RenderValues :
          CallRender(values) /\ UNCHANGED <<rngVars, loadVars, storeVars, genVars, dobVars>>
    \/ RunFrame /\ UNCHANGED <<rngVars, loadVars, storeVars, genVars, dobVars>>

SpecUi == InitUi /\ [][NextUi]_vars

(***************************************************************************)
(* Claims about the UI (checked under SpecUi)                              *)
(***************************************************************************)
\* C29: after any sequence of Renderer.render calls on one container,
\* interleaved in any way with the runs of their animation-frame callbacks,
\* once no callback is pending the container holds exactly the values of the
\* most recent render call, in order, and no item of an earlier call.
C29_LastRenderShown ==
    frames = <<>> => container = rendered

\* C30: for every pair of raw min-age and max-age inputs, the range
\* readAgeRange returns satisfies the preconditions of the generateDate it is
\* paired with, so the DOB handler never raises InvalidArgument.
C30_AgeRangeAccepted ==
    uiOut.kind # "none"
        => /\ uiOut.kind = "ok"
           /\ uiOut.minAge >= 1 /\ uiOut.maxAge >= 1 /\ uiOut.minAge <= uiOut.maxAge

====
